---- MODULE Spec2Model ----
(***************************************************************************)
(* A model of the domain classes of the TypeScript starter: Price,        *)
(* PhoneNumber, Product (TShirt, MobilePhone), Catalog and Order, and of   *)
(* the main.ts script that drives them.                                    *)
(*                                                                         *)
(* JavaScript values are records with a field k that names their kind, so  *)
(* that any two values can be compared.  A number is [k, h]: k is "fin",   *)
(* "nan", "inf" or "ninf", and a finite number is held in halves (h = 3 is *)
(* 1.5), which is enough to tell an integer from a fraction.               *)
(***************************************************************************)
EXTENDS Integers, Sequences, FiniteSets

VARIABLES
    numProductsSoFar,        \* Product.numProductsSoFar (static)
    products,                \* every Product constructed so far, in order
    catalog,                 \* the Catalog: catalogName, productsList
    numOrdersCreatedSoFar,   \* Order.numOrdersCreatedSoFar (static)
    o,                       \* the Order: orderId, completed, items, orderTotal
    ralphLauren,             \* main.ts: the Organization that makes the shirts
    call,                    \* the last call made: op, args and its result
    pc,                      \* main.ts: the statement to run next
    persons,                 \* every Person constructed so far, in order
    amazon,                  \* main.ts: the TechCompany that takes the employees
    orgs,                    \* every Organization constructed so far, in order
    build,                   \* webpack: module contents and the files emitted
    page,                    \* an HTML page: its script tags and what has run
    gulp                     \* gulp: the build directory and the tasks' streams

\* The variables of the product and order classes.
domainVars == <<numProductsSoFar, products, catalog, numOrdersCreatedSoFar, o,
                ralphLauren>>

\* The variables of the company classes.
companyVars == <<persons, amazon, orgs>>

\* The variables of the build tools and of the page that loads their output.
toolVars == <<build, page, gulp>>

\* The variables that the product and order classes leave alone.
otherVars == <<companyVars, toolVars>>

vars == <<domainVars, call, pc, otherVars>>

----------------------------------------------------------------------------
(* Bounds of the model. *)

\* Products constructed in one run of the catalog specification.
MaxProducts == 3
\* Line items pushed to one order in the order specification.
MaxItems == 2
\* Largest id of a catalog product looked up in the order specification (an id
\* that no product has is looked up as well).
MaxLookupId == 1
\* Largest value drawn for Math.round(Math.random() * 1E8), the order id seed.
MaxOrderSeed == 1
\* Largest value drawn for that seed in the run of main.ts.
MaxMainSeed == 9
\* Longest subscriber string given to the PhoneNumber constructor.
MaxPhoneLen == 3
\* Longest country code given to the PhoneNumber constructor.
MaxCountryCodeLen == 2
\* Person objects constructed in one run of the employees specification.
MaxPersons == 3
\* Organization objects constructed in one run of the organization specification.
MaxOrgs == 2
\* Longest name, before its .ts, of a file whose path is tested against the
\* cache groups.
MaxFileNameLen == 3

\* Most changes of a module between the builds of a run.
MaxEdits == 2

\* Most files in the build directory when gulp starts.
MaxStaleFiles == 2

----------------------------------------------------------------------------
(* JavaScript values. *)

Undefined == [k |-> "undefined"]
Null == [k |-> "null"]

Throw(e) == [k |-> "throw", error |-> e]
IsThrow(v) == v.k = "throw"

Halves(hh) == [k |-> "fin", h |-> hh]
Fin(n) == Halves(2 * n)
NaN == [k |-> "nan", h |-> 0]
Infinity == [k |-> "inf", h |-> 0]
NegInfinity == [k |-> "ninf", h |-> 0]

IsNumber(v) == v.k \in {"fin", "nan", "inf", "ninf"}

\* Math.round: the nearest integer, a tie going up; NaN and the infinities
\* are returned as they are.
MathRound(x) ==
    IF x.k = "fin" THEN Halves(IF x.h % 2 = 0 THEN x.h ELSE x.h + 1) ELSE x

\* a !== b on numbers: NaN differs from everything, itself included.
StrictNotEqual(a, b) == a.k = "nan" \/ b.k = "nan" \/ a # b

\* a <= b on numbers: false when either is NaN.
LessEq(a, b) ==
    IF a.k = "nan" \/ b.k = "nan" THEN FALSE
    ELSE IF a = b THEN TRUE
    ELSE IF a.k = "ninf" \/ b.k = "inf" THEN TRUE
    ELSE IF a.k = "inf" \/ b.k = "ninf" THEN FALSE
    ELSE a.h <= b.h

Sign(x) ==
    IF x.k = "inf" THEN 1
    ELSE IF x.k = "ninf" THEN -1
    ELSE IF x.h > 0 THEN 1 ELSE IF x.h < 0 THEN -1 ELSE 0

\* a * b on numbers.  The finite product is exact when a or b is an integer,
\* which is the case whenever a price (an integer here) is a factor.
Mul(a, b) ==
    IF a.k = "nan" \/ b.k = "nan" THEN NaN
    ELSE IF a.k # "fin" \/ b.k # "fin"
         THEN IF Sign(a) * Sign(b) = 0 THEN NaN
              ELSE IF Sign(a) * Sign(b) > 0 THEN Infinity ELSE NegInfinity
    ELSE Halves((a.h * b.h) \div 2)

\* a + b on numbers.
Add(a, b) ==
    IF a.k = "nan" \/ b.k = "nan" THEN NaN
    ELSE IF a.k = "fin" /\ b.k = "fin" THEN Halves(a.h + b.h)
    ELSE IF a.k = "fin" THEN b
    ELSE IF b.k = "fin" THEN a
    ELSE IF a = b THEN a ELSE NaN

----------------------------------------------------------------------------
(* ProductLib/Price.ts *)

\* The members of the Currency enum that main.ts uses.
Currencies == {"USD"}

\* A Price constructor that tests value < 0 where the code tests value <= 0.
NewPriceAcceptsZero(value, currency) ==
    IF LessEq(value, Fin(0)) /\ value # Fin(0)
    THEN Throw("EvalError")
    ELSE [k |-> "Price", value |-> value, currency |-> currency]

\* new Price(value, currency): the Price, or the EvalError thrown.
NewPrice(value, currency) ==
    IF LessEq(value, Fin(0))
    THEN Throw("EvalError")
    ELSE [k |-> "Price", value |-> value, currency |-> currency]

\* Price.getValue
PriceGetValue(price) == price.value

\* Price.getCurrency
PriceGetCurrency(price) == price.currency

----------------------------------------------------------------------------
(* JavaScript booleans, as values of a call's result. *)

JsTrue == [k |-> "boolean", b |-> TRUE]
JsFalse == [k |-> "boolean", b |-> FALSE]

----------------------------------------------------------------------------
(* CompanyLib/Organization.ts *)

\* new Organization(name): the employees are an empty Set.
OrganizationCtor(name) == [k |-> "Organization", name |-> name, employees |-> <<>>]

\* Organization.toString
OrganizationToString(org) == org.name

----------------------------------------------------------------------------
(* CompanyLib/TechCompany.ts *)

LLC == <<"L", "L", "C">>
UnitedStates == <<"U", "n", "i", "t", "e", "d", " ", "S", "t", "a", "t", "e", "s">>

\* new TechCompany(name, website, businessType = "LLC", country = "United
\* States"): a parameter left undefined takes its default.
TechCompanyCtor(name, website, businessType, country) ==
    [k |-> "TechCompany", name |-> name, employees |-> <<>>, website |-> website,
     businessType |-> IF businessType = Undefined THEN LLC ELSE businessType,
     country |-> IF country = Undefined THEN UnitedStates ELSE country]

\* TechCompany.toString: name + ' ' + businessType + ' ' + country
TechCompanyToString(org) ==
    org.name \o <<" ">> \o org.businessType \o <<" ">> \o org.country

\* org.toString(), by the class of org.
ToString(org) ==
    IF org.k = "TechCompany" THEN TechCompanyToString(org)
    ELSE OrganizationToString(org)

Amazon == <<"A", "m", "a", "z", "o", "n">>
AmazonCom == <<"a", "m", "a", "z", "o", "n", ".", "c", "o", "m">>

----------------------------------------------------------------------------
(* JavaScript strings, as sequences of one-character strings. *)

DecimalDigits == {"0", "1", "2", "3", "4", "5", "6", "7", "8", "9"}
HexDigits == DecimalDigits \cup {"a", "b", "c", "d", "e", "f",
                                 "A", "B", "C", "D", "E", "F"}
OctalDigits == {"0", "1", "2", "3", "4", "5", "6", "7"}
BinaryDigits == {"0", "1"}

\* The line terminators: LF, CR, and the line and paragraph separators.  A
\* code point that has no escape here is held by its JavaScript escape.
LineTerminators == {"\n", "\r", "\\u2028", "\\u2029"}

\* The code points that trim() and Number() strip: the WhiteSpace production
\* (tab, VT, FF, space, NBSP, the byte order mark, the space separators) and
\* the line terminators.
WhiteSpace ==
    {"\t", "\\v", "\f", " ", "\\u00A0", "\\uFEFF", "\\u1680", "\\u2000",
     "\\u2001", "\\u2002", "\\u2003", "\\u2004", "\\u2005", "\\u2006",
     "\\u2007", "\\u2008", "\\u2009", "\\u200A", "\\u202F", "\\u205F",
     "\\u3000"} \cup LineTerminators

AllIn(s, set) == \A i \in 1..Len(s) : s[i] \in set

\* String.prototype.trim
RECURSIVE TrimStart(_)
TrimStart(s) ==
    IF s # <<>> /\ Head(s) \in WhiteSpace THEN TrimStart(Tail(s)) ELSE s
RECURSIVE TrimEnd(_)
TrimEnd(s) ==
    IF s # <<>> /\ s[Len(s)] \in WhiteSpace
    THEN TrimEnd(SubSeq(s, 1, Len(s) - 1)) ELSE s
Trim(s) == TrimEnd(TrimStart(s))

(* Number(string), by the StringNumericLiteral grammar: the string converts *)
(* to a number, and not to NaN, exactly when, white space trimmed, it is    *)
(* empty, a signed decimal literal or an unsigned 0x, 0o or 0b literal.     *)
IsDecimalDigits(s) == Len(s) >= 1 /\ AllIn(s, DecimalDigits)

IsSignedInteger(s) ==
    \/ IsDecimalDigits(s)
    \/ Len(s) >= 2 /\ s[1] \in {"+", "-"} /\ IsDecimalDigits(Tail(s))

IsExponentPart(s) == Len(s) >= 2 /\ s[1] \in {"e", "E"} /\ IsSignedInteger(Tail(s))

\* digits, digits '.' digits-opt, or '.' digits
IsMantissa(s) ==
    \/ IsDecimalDigits(s)
    \/ \E j \in 1..Len(s) :
          /\ s[j] = "."
          /\ AllIn(SubSeq(s, 1, j - 1), DecimalDigits)
          /\ AllIn(SubSeq(s, j + 1, Len(s)), DecimalDigits)
          /\ Len(s) >= 2
          /\ (j = 1 => Len(s) >= 2)

IsStrUnsignedDecimalLiteral(s) ==
    \/ s = <<"I", "n", "f", "i", "n", "i", "t", "y">>
    \/ \E i \in 1..Len(s) :
          /\ IsMantissa(SubSeq(s, 1, i))
          /\ (i = Len(s) \/ IsExponentPart(SubSeq(s, i + 1, Len(s))))

IsStrDecimalLiteral(s) ==
    \/ IsStrUnsignedDecimalLiteral(s)
    \/ Len(s) >= 2 /\ s[1] \in {"+", "-"} /\ IsStrUnsignedDecimalLiteral(Tail(s))

IsNonDecimalIntegerLiteral(s) ==
    /\ Len(s) >= 3
    /\ s[1] = "0"
    /\ \/ s[2] \in {"x", "X"} /\ AllIn(SubSeq(s, 3, Len(s)), HexDigits)
       \/ s[2] \in {"o", "O"} /\ AllIn(SubSeq(s, 3, Len(s)), OctalDigits)
       \/ s[2] \in {"b", "B"} /\ AllIn(SubSeq(s, 3, Len(s)), BinaryDigits)

\* isNaN(Number(s)) for a string s
IsNaNNumber(s) ==
    LET t == Trim(s) IN
    ~(t = <<>> \/ IsStrDecimalLiteral(t) \/ IsNonDecimalIntegerLiteral(t))

----------------------------------------------------------------------------
(* ProductLib/PhoneNumber.ts *)

\* new PhoneNumber(countrycode, phoneNumberString): the PhoneNumber, or the
\* string thrown.
PhoneNumberCtor(countrycode, phoneNumberString) ==
    IF Len(Trim(countrycode)) = 0
    THEN Throw("countryCode cannot be an empty string")
    ELSE IF IsNaNNumber(phoneNumberString)
    THEN Throw("phoneNumberString must be a valid number as well")
    ELSE [k |-> "PhoneNumber", countrycode |-> Trim(countrycode),
          phoneNumberString |-> Trim(phoneNumberString)]

----------------------------------------------------------------------------
(* ProductLib/Product.ts, TShirt.ts, MobilePhone.ts *)

\* A Product constructor that forgets numProductsSoFar += 1.
ProductCtorNoIncrement(n, productName, manufacturer, price) ==
    [numProductsSoFar |-> n,
     self |-> [productId |-> n, productName |-> productName,
               manufacturer |-> manufacturer, price |-> price]]

\* Product's constructor, given the static counter n: the counter after it
\* and the fields it sets.
ProductCtor(n, productName, manufacturer, price) ==
    [numProductsSoFar |-> n + 1,
     self |-> [productId |-> n + 1, productName |-> productName,
               manufacturer |-> manufacturer, price |-> price]]

\* new TShirt(productName, manufacturer, price, size)
TShirtCtor(n, productName, manufacturer, price, size) ==
    LET super == ProductCtor(n, productName, manufacturer, price) IN
    [numProductsSoFar |-> super.numProductsSoFar,
     self |-> [k |-> "TShirt", productId |-> super.self.productId,
               productName |-> productName, manufacturer |-> manufacturer,
               price |-> price, size |-> size]]

\* new MobilePhone(productName, manufacturer, price)
MobilePhoneCtor(n, productName, manufacturer, price) ==
    LET super == ProductCtor(n, productName, manufacturer, price) IN
    [numProductsSoFar |-> super.numProductsSoFar,
     self |-> [k |-> "MobilePhone", productId |-> super.self.productId,
               productName |-> productName, manufacturer |-> manufacturer,
               price |-> price, currentSimPhoneNumber |-> Undefined]]

IsProduct(v) == v.k \in {"TShirt", "MobilePhone"}

\* Product.getProductId
GetProductId(p) == p.productId

\* Product.getValue
GetValue(p) == PriceGetValue(p.price)

\* Product.getCurrency
GetCurrency(p) == PriceGetCurrency(p.price)

\* Product.toString: '(' id ') ' name ', by ' manufacturer '. Price: '
\* currency ' ' value, kept as the tuple of the parts it concatenates.  The
\* manufacturer is concatenated by its own toString().
ProductToString(p) ==
    <<p.productId, p.productName, ToString(p.manufacturer),
      PriceGetCurrency(p.price), PriceGetValue(p.price)>>

\* PhoneNumber.toString: countrycode + ' ' + phoneNumberString
PhoneNumberToString(pn) == pn.countrycode \o <<" ">> \o pn.phoneNumberString

\* MobilePhone.insertSim: the phone after the call.
InsertSim(p, newSimPhoneNumber) ==
    [p EXCEPT !.currentSimPhoneNumber = newSimPhoneNumber]

\* MobilePhone.call: the line it writes to the console, by the parts it
\* concatenates.  The test != undefined is false of null as well.
MobilePhoneCall(p, receiverPhoneNumber) ==
    IF p.currentSimPhoneNumber # Undefined /\ p.currentSimPhoneNumber # Null
    THEN [k |-> "log", text |-> "Calling",
          to |-> PhoneNumberToString(receiverPhoneNumber),
          from |-> PhoneNumberToString(p.currentSimPhoneNumber)]
    ELSE [k |-> "log", text |-> "Please insert a valid SIM card", to |-> <<>>,
          from |-> <<>>]

----------------------------------------------------------------------------
(* typescript-collections Set<T>, as Catalog uses it: a dictionary from an *)
(* element's toString() to the element, iterated in insertion order.       *)

\* Set.contains
SetContains(set, key) == \E i \in 1..Len(set) : set[i].key = key

\* Set.add: nothing is added when the key is already there.
SetAdd(set, key, element) ==
    IF SetContains(set, key) THEN set
    ELSE Append(set, [key |-> key, value |-> element])

----------------------------------------------------------------------------
(* ProductLib/Catalog.ts *)

\* new Catalog(catalogName)
CatalogCtor(catalogName) == [catalogName |-> catalogName, productsList |-> <<>>]

\* Catalog.addProduct: the catalog after the call and the value returned.
AddProduct(cat, product) ==
    IF product # Null /\ product # Undefined
    THEN [catalog |-> [cat EXCEPT !.productsList =
                          SetAdd(@, ProductToString(product), product)],
          res |-> JsTrue]
    ELSE [catalog |-> cat, res |-> JsFalse]

\* Catalog.getCatalogString (and toString): one line per product, its counter
\* and its toString().
GetCatalogString(cat) ==
    [i \in 1..Len(cat.productsList) |->
        [counter |-> i, product |-> ProductToString(cat.productsList[i].value)]]

\* A lookup that takes productId for the position in the catalog.
SelectByPosition(cat, productId) ==
    IF productId \in 1..Len(cat.productsList)
    THEN cat.productsList[productId].value
    ELSE Undefined

\* Catalog.selectProductFromCatalog: forEach stops at the first product whose
\* id equals productId; undefined when there is none.
SelectProductFromCatalog(cat, productId) ==
    LET hits == {i \in 1..Len(cat.productsList) :
                    GetProductId(cat.productsList[i].value) = productId} IN
    IF hits = {} THEN Undefined
    ELSE cat.productsList[CHOOSE i \in hits : \A j \in hits : i <= j].value

----------------------------------------------------------------------------
(* The catalog specification: a client that constructs products of both    *)
(* subtypes, adds them to one catalog and looks products up by id.         *)

ProductNames == {"Polo Shirt L"}
\* The shirts are made by an Organization.
Manufacturers ==
    {OrganizationCtor(<<"R", "a", "l", "p", "h", " ", "L", "a", "u", "r", "e", "n">>)}
\* The phones are made by a TechCompany, whose toString is its own.
PhoneManufacturers == {TechCompanyCtor(Amazon, AmazonCom, Undefined, Undefined)}
\* The prices of the phones: 7 and 0.
PhonePriceInputs == {Fin(7), Fin(0)}
\* The SIM cards inserted: a phone number and undefined.
SimInputs == {PhoneNumberCtor(<<"9", "1">>, <<"9", "9">>), Undefined}
\* The phone numbers called.
ReceiverInputs == {PhoneNumberCtor(<<"1">>, <<"7">>)}
TShirtSizeInputs == {"Large"}
\* 10, 0, -0.5 and NaN.
PriceValueInputs == {Fin(10), Fin(0), Halves(-1), NaN}

NoCall == [op |-> "none", args |-> <<>>, res |-> Undefined]

\* The state of the variables a specification does not use.
DomainIdle ==
    /\ numProductsSoFar = 0
    /\ products = <<>>
    /\ catalog = Undefined
    /\ numOrdersCreatedSoFar = Undefined
    /\ o = Undefined
    /\ ralphLauren = Undefined

CompanyIdle ==
    /\ persons = <<>>
    /\ amazon = Undefined
    /\ orgs = <<>>

ToolsIdle ==
    /\ build = Undefined
    /\ page = Undefined
    /\ gulp = Undefined

OthersIdle == CompanyIdle /\ ToolsIdle

InitCatalog ==
    /\ OthersIdle
    /\ numProductsSoFar = 0
    /\ products = <<>>
    /\ catalog = CatalogCtor("Ralph Lauren sportswear")
    /\ numOrdersCreatedSoFar = Undefined
    /\ o = Undefined
    /\ ralphLauren = Undefined
    /\ call = NoCall
    /\ pc = "client"

\* new TShirt(name, manufacturer, new Price(value, currency), size)
NewTShirt(name, manufacturer, value, currency, size) ==
    LET price == NewPrice(value, currency)
        made == TShirtCtor(numProductsSoFar, name, manufacturer, price, size)
        args == <<name, manufacturer, value, currency, size>> IN
    IF IsThrow(price)
    THEN /\ call' = [op |-> "new TShirt", args |-> args, res |-> price]
         /\ UNCHANGED <<otherVars, numProductsSoFar, products, catalog, numOrdersCreatedSoFar, o, ralphLauren, pc>>
    ELSE /\ Len(products) < MaxProducts
         /\ numProductsSoFar' = made.numProductsSoFar
         /\ products' = Append(products, made.self)
         /\ call' = [op |-> "new TShirt", args |-> args, res |-> made.self]
         /\ UNCHANGED <<otherVars, catalog, numOrdersCreatedSoFar, o, ralphLauren, pc>>

\* new MobilePhone(name, manufacturer, new Price(value, currency))
NewMobilePhone(name, manufacturer, value, currency) ==
    LET price == NewPrice(value, currency)
        made == MobilePhoneCtor(numProductsSoFar, name, manufacturer, price)
        args == <<name, manufacturer, value, currency>> IN
    IF IsThrow(price)
    THEN /\ call' = [op |-> "new MobilePhone", args |-> args, res |-> price]
         /\ UNCHANGED <<otherVars, numProductsSoFar, products, catalog, numOrdersCreatedSoFar, o, ralphLauren, pc>>
    ELSE /\ Len(products) < MaxProducts
         /\ numProductsSoFar' = made.numProductsSoFar
         /\ products' = Append(products, made.self)
         /\ call' = [op |-> "new MobilePhone", args |-> args, res |-> made.self]
         /\ UNCHANGED <<otherVars, catalog, numOrdersCreatedSoFar, o, ralphLauren, pc>>

\* catalog.addProduct(product), product a constructed Product, null or undefined
CatalogAddProduct(product) ==
    LET r == AddProduct(catalog, product) IN
    /\ catalog' = r.catalog
    /\ call' = [op |-> "addProduct", args |-> <<product>>, res |-> r.res]
    /\ UNCHANGED <<otherVars, numProductsSoFar, products, numOrdersCreatedSoFar, o, ralphLauren, pc>>

\* catalog.selectProductFromCatalog(productId)
CatalogSelect(productId) ==
    /\ call' = [op |-> "selectProductFromCatalog", args |-> <<productId>>,
                res |-> SelectProductFromCatalog(catalog, productId)]
    /\ UNCHANGED <<otherVars, numProductsSoFar, products, catalog, numOrdersCreatedSoFar, o, ralphLauren, pc>>

\* products[i].insertSim(sim), products[i] a MobilePhone.  The catalog holds
\* the same object, the one product with this id.
ProductInsertSim(i, sim) ==
    LET phone == products[i]
        Same(entry) == entry.value.productId = phone.productId IN
    /\ phone.k = "MobilePhone"
    /\ products' = [products EXCEPT ![i] = InsertSim(phone, sim)]
    /\ catalog' = [catalog EXCEPT !.productsList =
                      [j \in 1..Len(catalog.productsList) |->
                          IF Same(catalog.productsList[j])
                          THEN [catalog.productsList[j] EXCEPT
                                   !.value = InsertSim(phone, sim)]
                          ELSE catalog.productsList[j]]]
    /\ call' = [op |-> "insertSim", args |-> <<phone, sim>>, res |-> Undefined]
    /\ UNCHANGED <<otherVars, numProductsSoFar, numOrdersCreatedSoFar, o, ralphLauren, pc>>

\* products[i].call(receiver), products[i] a MobilePhone.
ProductCall(i, receiver) ==
    /\ products[i].k = "MobilePhone"
    /\ call' = [op |-> "call", args |-> <<products[i], receiver>>,
                res |-> MobilePhoneCall(products[i], receiver)]
    /\ UNCHANGED <<otherVars, numProductsSoFar, products, catalog, numOrdersCreatedSoFar, o, ralphLauren, pc>>

ProductsMade == {products[i] : i \in 1..Len(products)}

NextCatalog ==
    \/ \E n \in ProductNames, m \in Manufacturers, v \in PriceValueInputs,
          c \in Currencies, s \in TShirtSizeInputs : NewTShirt(n, m, v, c, s)
    \/ \E n \in ProductNames, m \in PhoneManufacturers, v \in PhonePriceInputs,
          c \in Currencies : NewMobilePhone(n, m, v, c)
    \/ \E p \in ProductsMade \cup {Null, Undefined} : CatalogAddProduct(p)
    \/ \E id \in 0..(MaxProducts + 1) : CatalogSelect(id)
    \/ \E i \in 1..Len(products), sim \in SimInputs : ProductInsertSim(i, sim)
    \/ \E i \in 1..Len(products), r \in ReceiverInputs : ProductCall(i, r)

SpecCatalog == InitCatalog /\ [][NextCatalog]_vars

----------------------------------------------------------------------------
(* ProductLib/Order.ts *)

\* new OrderItem(product, quantity): the item, or the TypeError thrown.
OrderItemCtor(product, quantity) ==
    IF StrictNotEqual(quantity, MathRound(quantity))
    THEN Throw("TypeError")
    ELSE [k |-> "OrderItem", product |-> product, quantity |-> quantity]

\* An item total that leaves the quantity out.
GetItemTotalIgnoresQuantity(item) ==
    IF IsProduct(item.product) THEN GetValue(item.product) ELSE Throw("TypeError")

\* OrderItem.getItemTotal: calling getValue on an absent product throws.
GetItemTotal(item) ==
    IF IsProduct(item.product)
    THEN Mul(GetValue(item.product), item.quantity)
    ELSE Throw("TypeError")

\* new Order(), given the static counter n.
OrderCtor(n) ==
    [numOrdersCreatedSoFar |-> n + 1,
     self |-> [k |-> "Order", orderId |-> n + 1, completed |-> FALSE,
               items |-> <<>>, orderTotal |-> Undefined]]

\* Order.isCompleted
IsCompleted(order) == order.completed

\* An addItem without the isCompleted test.
AddItemNoCompletedCheck(order, product, quantity) ==
    LET item == OrderItemCtor(product, quantity) IN
    IF IsThrow(item)
    THEN [order |-> order, res |-> JsFalse]
    ELSE [order |-> [order EXCEPT !.items = Append(@, item)], res |-> JsTrue]

\* An addItem that pushes the item before its quantity is tested.
AddItemPushesFirst(order, product, quantity) ==
    IF ~IsCompleted(order)
    THEN [order |-> [order EXCEPT !.items =
                        Append(@, [k |-> "OrderItem", product |-> product,
                                   quantity |-> quantity])],
          res |-> IF IsThrow(OrderItemCtor(product, quantity)) THEN JsFalse ELSE JsTrue]
    ELSE [order |-> order, res |-> Throw("ReferenceError")]

\* Order.addItem: the order after the call and the value returned or thrown.
AddItem(order, product, quantity) ==
    IF ~IsCompleted(order)
    THEN LET item == OrderItemCtor(product, quantity) IN
         IF IsThrow(item)
         THEN [order |-> order, res |-> JsFalse]
         ELSE [order |-> [order EXCEPT !.items = Append(@, item)], res |-> JsTrue]
    ELSE [order |-> order, res |-> Throw("ReferenceError")]

\* The forEach of getOrderTotal: val += item.getItemTotal() over the items
\* left, or what getItemTotal throws.
RECURSIVE SumItemTotals(_, _)
SumItemTotals(items, val) ==
    IF items = <<>> THEN val
    ELSE LET t == GetItemTotal(Head(items)) IN
         IF IsThrow(t) THEN t ELSE SumItemTotals(Tail(items), Add(val, t))

\* A getOrderTotal that computes the total anew on every call.
GetOrderTotalUncached(order) ==
    LET val == SumItemTotals(order.items, Fin(0)) IN
    IF IsThrow(val)
    THEN [order |-> order, res |-> val]
    ELSE [order |-> [order EXCEPT !.orderTotal = val], res |-> val]

\* Order.getOrderTotal: the order after the call and the value returned or
\* thrown.
GetOrderTotal(order) ==
    IF order.orderTotal = Undefined
    THEN LET val == SumItemTotals(order.items, Fin(0)) IN
         IF IsThrow(val)
         THEN [order |-> order, res |-> val]
         ELSE [order |-> [order EXCEPT !.orderTotal = val], res |-> val]
    ELSE [order |-> order, res |-> order.orderTotal]

\* A purchase that asks for the total before it sets the flag.
PurchaseTotalFirst(order) ==
    LET r == GetOrderTotal(order) IN
    IF IsThrow(r.res) THEN [order |-> r.order, res |-> r.res]
    ELSE [order |-> [r.order EXCEPT !.completed = TRUE], res |-> Undefined]

\* Order.purchase
Purchase(order) ==
    LET done == [order EXCEPT !.completed = TRUE]
        r == GetOrderTotal(done) IN
    [order |-> r.order, res |-> IF IsThrow(r.res) THEN r.res ELSE Undefined]

\* One line of the invoice: counter, quantity, product.toString(), the item
\* total and the product's currency, kept as the parts it concatenates.
InvoiceLine(counter, item) ==
    [counter |-> counter, quantity |-> item.quantity,
     product |-> ProductToString(item.product),
     itemTotal |-> GetItemTotal(item), currency |-> GetCurrency(item.product)]

\* Order.getInvoice: the header, one line per item, the rule and the total;
\* item.product.toString() throws on an absent product, before the total is
\* asked for.
GetInvoice(order) ==
    IF \E i \in 1..Len(order.items) : ~IsProduct(order.items[i].product)
    THEN [order |-> order, res |-> Throw("TypeError")]
    ELSE LET r == GetOrderTotal(order) IN
         [order |-> r.order,
          res |-> [k |-> "invoice", orderId |-> order.orderId,
                   lines |-> [i \in 1..Len(order.items) |->
                                 InvoiceLine(i, order.items[i])],
                   total |-> r.res]]

----------------------------------------------------------------------------
(* main.ts, lines 31 to 37: the catalog of three polo shirts and the order. *)

MainShirtNames == <<"Polo Shirt L", "Polo Shirt M", "Polo Shirt S">>
MainShirtPrices == <<Fin(10), Fin(7), Fin(5)>>
MainShirtSizes == <<"Large", "Medium", "Small">>

\* The i-th shirt main.ts constructs, the counter standing at i - 1.
MainShirt(i) ==
    TShirtCtor(i - 1, MainShirtNames[i], OrganizationCtor("Ralph Lauren"),
               NewPrice(MainShirtPrices[i], "USD"), MainShirtSizes[i]).self

\* The catalog after the first n addProduct calls of main.ts.
RECURSIVE MainCatalog(_)
MainCatalog(n) ==
    IF n = 0 THEN CatalogCtor("Ralph Lauren sportswear")
    ELSE AddProduct(MainCatalog(n - 1), MainShirt(n)).catalog

----------------------------------------------------------------------------
(* The order specification: from the state main.ts is in after line 37, a  *)
(* client calls the operations of the order in any sequence, taking each   *)
(* product from a catalog lookup as main.ts does.                          *)

\* The ids looked up: the first ids of the catalog, and the id after its last,
\* for which the lookup returns undefined.
LookupIds == (1..MaxLookupId) \cup {Len(MainShirtNames) + 1}

\* 2, -1, 1.5, NaN and Infinity.
QuantityInputs == {Fin(2), Fin(-1), Halves(3), NaN, Infinity}

Init ==
    /\ OthersIdle
    /\ numProductsSoFar = 3
    /\ products = [i \in 1..3 |-> MainShirt(i)]
    /\ catalog = MainCatalog(3)
    /\ \E seed \in 0..MaxOrderSeed :
          /\ numOrdersCreatedSoFar = OrderCtor(seed).numOrdersCreatedSoFar
          /\ o = OrderCtor(seed).self
    /\ ralphLauren = OrganizationCtor("Ralph Lauren")
    /\ call = NoCall
    /\ pc = "client"

\* o.addItem(catalog.selectProductFromCatalog(productId), quantity)
OrderAddItem(productId, quantity) ==
    LET product == SelectProductFromCatalog(catalog, productId)
        r == AddItem(o, product, quantity) IN
    /\ Len(r.order.items) <= MaxItems
    /\ o' = r.order
    /\ call' = [op |-> "addItem", args |-> <<product, quantity>>, res |-> r.res]
    /\ UNCHANGED <<otherVars, numProductsSoFar, products, catalog, numOrdersCreatedSoFar,
                   ralphLauren, pc>>

\* o.getOrderTotal()
OrderGetOrderTotal ==
    LET r == GetOrderTotal(o) IN
    /\ o' = r.order
    /\ call' = [op |-> "getOrderTotal", args |-> <<>>, res |-> r.res]
    /\ UNCHANGED <<otherVars, numProductsSoFar, products, catalog, numOrdersCreatedSoFar,
                   ralphLauren, pc>>

\* o.purchase()
OrderPurchase ==
    LET r == Purchase(o) IN
    /\ o' = r.order
    /\ call' = [op |-> "purchase", args |-> <<>>, res |-> r.res]
    /\ UNCHANGED <<otherVars, numProductsSoFar, products, catalog, numOrdersCreatedSoFar,
                   ralphLauren, pc>>

\* o.getInvoice()
OrderGetInvoice ==
    LET r == GetInvoice(o) IN
    /\ o' = r.order
    /\ call' = [op |-> "getInvoice", args |-> <<>>, res |-> r.res]
    /\ UNCHANGED <<otherVars, numProductsSoFar, products, catalog, numOrdersCreatedSoFar,
                   ralphLauren, pc>>

Next ==
    \/ \E id \in LookupIds, q \in QuantityInputs : OrderAddItem(id, q)
    \/ OrderGetOrderTotal
    \/ OrderPurchase
    \/ OrderGetInvoice

Spec == Init /\ [][Next]_vars

----------------------------------------------------------------------------
(* The phone number specification: the constructor applied to one pair of  *)
(* strings, drawn from the strings up to a length over a few characters.   *)

CountryCodeChars == {"1", " ", "\t"}
PhoneChars == {"7", "0", " ", "\n", "-", ".", "e", "x"}

\* The strings over chars of length at most n.
StringsUpTo(chars, n) == UNION {[1..m -> chars] : m \in 0..n}

InitPhone ==
    /\ OthersIdle
    /\ numProductsSoFar = 0
    /\ products = <<>>
    /\ catalog = Undefined
    /\ numOrdersCreatedSoFar = Undefined
    /\ o = Undefined
    /\ ralphLauren = Undefined
    /\ \E cc \in StringsUpTo(CountryCodeChars, MaxCountryCodeLen),
          pn \in StringsUpTo(PhoneChars, MaxPhoneLen) :
          call = [op |-> "new PhoneNumber", args |-> <<cc, pn>>, res |-> Undefined]
    /\ pc = "call"

\* new PhoneNumber(countrycode, phoneNumberString)
NewPhoneNumber ==
    /\ pc = "call"
    /\ call' = [call EXCEPT !.res = PhoneNumberCtor(call.args[1], call.args[2])]
    /\ pc' = "return"
    /\ UNCHANGED <<otherVars, numProductsSoFar, products, catalog, numOrdersCreatedSoFar, o,
                   ralphLauren>>

NextPhone == NewPhoneNumber

SpecPhone == InitPhone /\ [][NextPhone]_vars

----------------------------------------------------------------------------
(* CompanyLib/Person.ts, TechCompany.ts and Organization.addEmployee.  An  *)
(* object is held with ref, its position among the objects of its class    *)
(* constructed so far: two objects are the same object when their refs are *)
(* equal, whatever their fields.  The strings that toString concatenates   *)
(* are sequences of one-character strings.                                 *)

\* new Person(id, name), the ref-th Person constructed.
PersonCtor(ref, id, name) == [k |-> "Person", ref |-> ref, id |-> id, name |-> name]

\* Person.toString: the description of a Person, made of its id and its name.
PersonToString(p) == [k |-> "string", id |-> p.id, name |-> p.name]

\* Organization.addEmployee: this.employees.add(e), the Set keyed by
\* e.toString().
OrganizationAddEmployee(org, e) ==
    [org EXCEPT !.employees = SetAdd(@, PersonToString(e), e)]

\* Set.size, of the employees
EmployeesSize(org) == Len(org.employees)

\* Organization.getHTMLString: the count of the employees, ':' or '.', and one
\* line per employee with its name, kept as the parts it concatenates.
OrganizationGetHTMLString(org) ==
    [k |-> "html",
     size |-> EmployeesSize(org),
     mark |-> IF EmployeesSize(org) > 0 THEN ":" ELSE ".",
     names |-> [i \in 1..Len(org.employees) |-> org.employees[i].value.name]]

\* out.trim() on the string of Organization.getHTMLString: it starts with
\* 'This' and ends with the mark or with the name of the last employee, after
\* '&nbsp;', so the white space stripped is that at the end of the last name.
TrimHTMLString(html) ==
    IF html.names = <<>> THEN html
    ELSE [html EXCEPT !.names[Len(html.names)] = TrimEnd(@)]

\* TechCompany.getHTMLString: this.toString() + '<br>' +
\* super.getHTMLString().trim()
TechCompanyGetHTMLString(org) ==
    [k |-> "html", heading |-> TechCompanyToString(org),
     body |-> TrimHTMLString(OrganizationGetHTMLString(org))]

----------------------------------------------------------------------------
(* The employees specification: from main.ts line 10, a client constructs  *)
(* Person objects and hands them to amazon.addEmployee in any sequence.    *)

PersonIds == {1, 2}
JohnSmith == <<"J", "o", "h", "n", " ", "S", "m", "i", "t", "h">>
JohannaSmith == <<"J", "o", "h", "a", "n", "n", "a", " ", "S", "m", "i", "t", "h">>
\* A name of main.ts and a name that ends with white space.
PersonNames == {JohnSmith, <<"B", "o", "b", " ">>}

InitEmployees ==
    /\ DomainIdle
    /\ ToolsIdle
    /\ call = NoCall
    /\ pc = "client"
    /\ persons = <<>>
    /\ amazon = TechCompanyCtor(Amazon, AmazonCom, Undefined, Undefined)
    /\ orgs = <<>>

\* new Person(id, name)
NewPerson(id, name) ==
    /\ Len(persons) < MaxPersons
    /\ persons' = Append(persons, PersonCtor(Len(persons) + 1, id, name))
    /\ call' = [op |-> "new Person", args |-> <<id, name>>,
                res |-> persons'[Len(persons')]]
    /\ UNCHANGED <<domainVars, toolVars, pc, amazon, orgs>>

\* amazon.addEmployee(e), e a Person constructed before
AmazonAddEmployee(e) ==
    /\ amazon' = OrganizationAddEmployee(amazon, e)
    /\ call' = [op |-> "addEmployee", args |-> <<e>>, res |-> Undefined]
    /\ UNCHANGED <<domainVars, toolVars, pc, persons, orgs>>

\* amazon.getHTMLString()
AmazonGetHTMLString ==
    /\ call' = [op |-> "getHTMLString", args |-> <<>>,
                res |-> TechCompanyGetHTMLString(amazon)]
    /\ UNCHANGED <<domainVars, toolVars, pc, persons, amazon, orgs>>

NextEmployees ==
    \/ \E id \in PersonIds, name \in PersonNames : NewPerson(id, name)
    \/ \E i \in 1..Len(persons) : AmazonAddEmployee(persons[i])
    \/ AmazonGetHTMLString

SpecEmployees == InitEmployees /\ [][NextEmployees]_vars

----------------------------------------------------------------------------
(* The organization specification: a client constructs Organizations and   *)
(* TechCompanies and asks each for its toString().                         *)

Pepsi == <<"P", "e", "p", "s", "i">>
AmazonLLC == Amazon \o <<" ">> \o LLC
United == <<"U", "n", "i", "t", "e", "d">>
States == <<"S", "t", "a", "t", "e", "s">>

OrganizationNames == {Pepsi, Amazon, AmazonLLC}
BusinessTypeInputs == {Undefined, LLC, United}
CountryInputs == {Undefined, States}

InitOrg ==
    /\ DomainIdle
    /\ CompanyIdle
    /\ ToolsIdle
    /\ call = NoCall
    /\ pc = "client"

\* new Organization(name)
NewOrganization(name) ==
    /\ Len(orgs) < MaxOrgs
    /\ orgs' = Append(orgs, OrganizationCtor(name))
    /\ call' = [op |-> "new Organization", args |-> <<name>>,
                res |-> orgs'[Len(orgs')]]
    /\ UNCHANGED <<domainVars, toolVars, pc, persons, amazon>>

\* new TechCompany(name, website, businessType, country)
NewTechCompany(name, website, businessType, country) ==
    /\ Len(orgs) < MaxOrgs
    /\ orgs' = Append(orgs, TechCompanyCtor(name, website, businessType, country))
    /\ call' = [op |-> "new TechCompany",
                args |-> <<name, website, businessType, country>>,
                res |-> orgs'[Len(orgs')]]
    /\ UNCHANGED <<domainVars, toolVars, pc, persons, amazon>>

\* orgs[i].toString()
OrgToString(i) ==
    /\ call' = [op |-> "toString", args |-> <<i>>,
                res |-> [k |-> "string", chars |-> ToString(orgs[i])]]
    /\ UNCHANGED <<domainVars, toolVars, pc, companyVars>>

NextOrg ==
    \/ \E name \in OrganizationNames : NewOrganization(name)
    \/ \E name \in OrganizationNames, b \in BusinessTypeInputs, c \in CountryInputs :
          NewTechCompany(name, AmazonCom, b, c)
    \/ \E i \in 1..Len(orgs) : OrgToString(i)

SpecOrg == InitOrg /\ [][NextOrg]_vars

----------------------------------------------------------------------------
(* Regular expressions, as webpack.config.js writes them: a sequence of    *)
(* atoms, each a character class with a quantifier.  A string is a         *)
(* sequence of one-character strings.                                      *)

\* One character c, any character (.), or any character but c ([^c]).
LitClass(c) == [k |-> "lit", c |-> c]
AnyClass == [k |-> "any", c |-> ""]
NotClass(c) == [k |-> "not", c |-> c]

One(cls) == [cls |-> cls, q |-> "one"]
OneOrMore(cls) == [cls |-> cls, q |-> "plus"]
ZeroOrMore(cls) == [cls |-> cls, q |-> "star"]

\* The atoms of a literal string.
Lit(str) == [i \in 1..Len(str) |-> One(LitClass(str[i]))]

\* Does the class accept the character ch?  The regexps have no s flag, so
\* the dot accepts every character but a line terminator.
Accepts(cls, ch) ==
    IF cls.k = "lit" THEN ch = cls.c
    ELSE IF cls.k = "not" THEN ch # cls.c
    ELSE ch \notin LineTerminators

\* The positions reached from the positions P by one character of the class.
StepClass(cls, str, P) ==
    {p + 1 : p \in {q \in P : q <= Len(str) /\ Accepts(cls, str[q])}}

\* The positions reached from P by one or more characters of the class.
RECURSIVE StepPlus(_, _, _)
StepPlus(cls, str, P) ==
    LET Q == StepClass(cls, str, P) IN
    IF Q = {} THEN {} ELSE Q \cup StepPlus(cls, str, Q)

\* The positions reached from P by one atom.
StepAtom(atom, str, P) ==
    IF atom.q = "one" THEN StepClass(atom.cls, str, P)
    ELSE IF atom.q = "plus" THEN StepPlus(atom.cls, str, P)
    ELSE P \cup StepPlus(atom.cls, str, P)

\* The positions reached from P by the atoms of re, in order.
RECURSIVE StepAll(_, _, _)
StepAll(re, str, P) ==
    IF re = <<>> THEN P
    ELSE StepAll(Tail(re), str, StepAtom(Head(re), str, P))

\* A test that only finds a match that starts at the first character.
RegExpTestAnchored(re, str) == StepAll(re, str, {1}) # {}

\* RegExp.prototype.test: the expression matches somewhere in str.
RegExpTest(re, str) == StepAll(re, str, 1..(Len(str) + 1)) # {}

----------------------------------------------------------------------------
(* webpack.config.js *)

\* path.sep: "/" on POSIX, "\\" on Windows.
PathSeps == {"/", "\\"}

AnimalLibStr == <<"A", "n", "i", "m", "a", "l", "L", "i", "b">>
MammalsStr == <<"M", "a", "m", "m", "a", "l", "s">>
ReptilesStr == <<"R", "e", "p", "t", "i", "l", "e", "s">>
BirdsStr == <<"B", "i", "r", "d", "s">>
CompanyLibStr == <<"C", "o", "m", "p", "a", "n", "y", "L", "i", "b">>
ProductLibStr == <<"P", "r", "o", "d", "u", "c", "t", "L", "i", "b">>
NodeModulesStr == <<"n", "o", "d", "e", "_", "m", "o", "d", "u", "l", "e", "s">>
JqueryStr == <<"j", "q", "u", "e", "r", "y">>
TypescriptCollectionsStr ==
    <<"t", "y", "p", "e", "s", "c", "r", "i", "p", "t", "-",
      "c", "o", "l", "l", "e", "c", "t", "i", "o", "n", "s">>

\* The tail '.*.ts' of a pattern: the dot before ts is not escaped.
AnyDotTs == <<ZeroOrMore(AnyClass), One(AnyClass)>> \o Lit(<<"t", "s">>)

\* new RegExp('AnimalLib' + '\\' + path.sep + '([^' + '\\' + path.sep + ']+.ts)')
AnimalLibTest(sep) ==
    Lit(AnimalLibStr) \o Lit(<<sep>>)
        \o <<OneOrMore(NotClass(sep)), One(AnyClass)>> \o Lit(<<"t", "s">>)

\* new RegExp('AnimalLib' + '\\' + path.sep + dir + '\\' + path.sep + '.*.ts')
AnimalSubLibTest(dir, sep) ==
    Lit(AnimalLibStr) \o Lit(<<sep>>) \o Lit(dir) \o Lit(<<sep>>) \o AnyDotTs

\* new RegExp(lib + '\\' + path.sep + '.*.ts')
AppLibTest(lib, sep) == Lit(lib) \o Lit(<<sep>>) \o AnyDotTs

\* new RegExp('node_modules' + '\\' + path.sep + lib + '.*')
VendorTest(lib, sep) ==
    Lit(NodeModulesStr) \o Lit(<<sep>>) \o Lit(lib) \o <<ZeroOrMore(AnyClass)>>

CacheGroup(key, test, name) ==
    [key |-> key, test |-> test, chunks |-> "initial", name |-> name,
     enforce |-> TRUE]

\* optimization.splitChunks.cacheGroups, in the order of its keys.
CacheGroups(sep) ==
    <<CacheGroup("AnimalLib", AnimalLibTest(sep), "AnimalLib"),
      CacheGroup("Mammals", AnimalSubLibTest(MammalsStr, sep), "AnimalLib-Mammals"),
      CacheGroup("Reptiles", AnimalSubLibTest(ReptilesStr, sep), "AnimalLib-Reptiles"),
      CacheGroup("Birds", AnimalSubLibTest(BirdsStr, sep), "AnimalLib-Birds"),
      CacheGroup("CompanyLib", AppLibTest(CompanyLibStr, sep), "CompanyLib"),
      CacheGroup("ProductLib", AppLibTest(ProductLibStr, sep), "ProductLib"),
      CacheGroup("jquery", VendorTest(JqueryStr, sep), "jquery"),
      CacheGroup("typescript_collections",
                 VendorTest(TypescriptCollectionsStr, sep),
                 "typescript_collections")>>

\* Entry points of which the third has the name of a cache group's chunk.
EntryNamedAsACacheGroup ==
    <<[name |-> "main", file |-> "./src/main.ts"],
      [name |-> "main2", file |-> "./src/main2.ts"],
      [name |-> "AnimalLib", file |-> "./src/main3.ts"]>>

\* The entry points, in the order of their keys.
Entry ==
    <<[name |-> "main", file |-> "./src/main.ts"],
      [name |-> "main2", file |-> "./src/main2.ts"],
      [name |-> "main3", file |-> "./src/main3.ts"]>>

\* const config = { ... }, lines 5 to 83.
BaseConfig(sep) ==
    [k |-> "config",
     entry |-> Entry,
     optimization |-> [splitChunks |-> [cacheGroups |-> CacheGroups(sep)]],
     module |-> [rules |-> <<[resource |-> [test |-> "\\.ts$",
                                            exclude |-> "node_modules"],
                              use |-> "awesome-typescript-loader"]>>],
     resolve |-> [extensions |-> <<".ts", ".js", "json">>],
     output |-> [filename |-> "[name].bundle.js", path |-> "build"]]

\* config.stats, lines 106 to 127.
Stats ==
    [env |-> TRUE, performance |-> TRUE, timings |-> TRUE, hash |-> TRUE,
     warnings |-> FALSE, colors |-> TRUE, chunks |-> TRUE, chunksSort |-> "size",
     entrypoints |-> TRUE, modules |-> FALSE, maxModules |-> 1000, depth |-> TRUE,
     modulesSort |-> "depth", reasons |-> FALSE,
     excludeModules |-> "function(){return false;}"]

\* A JavaScript string that is only ever compared.
Str(s) == [k |-> "string", s |-> s]

\* An object whose properties are the keys of flags that are not undefined.
Obj(flags) == [k |-> "object", flags |-> flags]

\* env == undefined: true of undefined and of null.
LooseEqualsUndefined(v) == v = Undefined \/ v = Null

\* env === s
StrictEqualsStr(v, s) == v = Str(s)

\* env.key === true: a property that env has not is undefined.
FlagIsTrue(v, key) ==
    /\ v.k = "object"
    /\ key \in DOMAIN v.flags
    /\ v.flags[key] = JsTrue

\* env === name || env.name === true
Selects(env, name) == StrictEqualsStr(env, name) \/ FlagIsTrue(env, name)

\* obj with the properties of props assigned to it (obj.p = v, for each).
Assign(obj, props) ==
    [p \in DOMAIN obj \cup DOMAIN props |->
        IF p \in DOMAIN props THEN props[p] ELSE obj[p]]

\* The development branch (lines 88 to 93) with the minimize line left out.
DevelopmentConfigMinified(config) ==
    Assign(config, [devtool |-> "inline-source-map"])

\* A development branch that sets config.optimization = {minimize: false}.
DevelopmentConfigNewOptimization(config) ==
    [p \in DOMAIN config \cup {"devtool"} |->
        IF p = "devtool" THEN "inline-source-map"
        ELSE IF p = "optimization" THEN [minimize |-> FALSE]
        ELSE config[p]]

\* The development branch, lines 88 to 93.
DevelopmentConfig(config) ==
    Assign(config,
           [devtool |-> "inline-source-map",
            optimization |-> Assign(config.optimization, [minimize |-> FALSE])])

\* A selector test that takes any defined env for a production selector.
IsProductionEnvAny(env) == TRUE

\* The test of line 95.
IsProductionEnv(env) == Selects(env, "prod") \/ Selects(env, "production")

\* The test of line 87.
IsDevelopmentEnv(env) ==
    Selects(env, "dev") \/ Selects(env, "devo") \/ Selects(env, "development")

\* module.exports = function(env, argv): the configuration returned, or the
\* string thrown.
WebpackConfig(env, sep) ==
    IF LooseEqualsUndefined(env)
    THEN Throw("ERROR: No environment option specified!")
    ELSE IF IsDevelopmentEnv(env)
    THEN Assign(DevelopmentConfig(BaseConfig(sep)), [stats |-> Stats])
    ELSE IF IsProductionEnv(env)
    THEN Assign(BaseConfig(sep), [stats |-> Stats])
    ELSE Throw("ERROR: Invalid environment option specified!")

----------------------------------------------------------------------------
(* The configuration specification: the function of webpack.config.js      *)
(* applied to one value of env, as webpack's --env option can make it.     *)

EnvStrings ==
    {"dev", "devo", "development", "prod", "production", "test", "Dev", ""}
EnvKeys == {"dev", "devo", "development", "prod", "production"}

\* env: absent, null, a string (--env dev), an object of flags (--env.dev,
\* --env.dev=false) or a boolean or number.
EnvInputs ==
    {Undefined, Null, JsTrue, JsFalse, Fin(1)}
        \cup {Str(s) : s \in EnvStrings}
        \cup {Obj(f) : f \in [EnvKeys -> {JsTrue, JsFalse, Undefined}]}

InitConfig ==
    /\ DomainIdle
    /\ CompanyIdle
    /\ ToolsIdle
    /\ \E env \in EnvInputs, sep \in PathSeps :
          call = [op |-> "webpack.config", args |-> <<env, sep>>, res |-> Undefined]
    /\ pc = "call"

\* require('./webpack.config.js')(env, argv)
CallWebpackConfig ==
    /\ pc = "call"
    /\ call' = [call EXCEPT !.res = WebpackConfig(call.args[1], call.args[2])]
    /\ pc' = "return"
    /\ UNCHANGED <<domainVars, companyVars, toolVars>>

NextConfig == CallWebpackConfig

SpecConfig == InitConfig /\ [][NextConfig]_vars

----------------------------------------------------------------------------
(* The modules of the application and the imports between them.  A module  *)
(* is named by its path from the project directory, a sequence of          *)
(* segments; webpack resolves it to a path joined by path.sep.             *)

SrcStr == <<"s", "r", "c">>
DistStr == <<"d", "i", "s", "t">>
LibStr == <<"l", "i", "b">>
DotTs == <<".", "t", "s">>
DotJs == <<".", "j", "s">>

\* The segments joined by sep.
RECURSIVE JoinPath(_, _)
JoinPath(segs, sep) ==
    IF Len(segs) = 1 THEN segs[1]
    ELSE segs[1] \o <<sep>> \o JoinPath(Tail(segs), sep)

\* The modules, each with the name it is known by here.
Modules ==
    {[id |-> "./src/main.ts",
      segs |-> <<SrcStr,
                 <<"m", "a", "i", "n">> \o DotTs>>],
     [id |-> "./src/main2.ts",
      segs |-> <<SrcStr,
                 <<"m", "a", "i", "n", "2">> \o DotTs>>],
     [id |-> "./src/main3.ts",
      segs |-> <<SrcStr,
                 <<"m", "a", "i", "n", "3">> \o DotTs>>],
     [id |-> "./src/CompanyLib/Person.ts",
      segs |-> <<SrcStr,
                 CompanyLibStr,
                 <<"P", "e", "r", "s", "o", "n">> \o DotTs>>],
     [id |-> "./src/CompanyLib/Organization.ts",
      segs |-> <<SrcStr,
                 CompanyLibStr,
                 <<"O", "r", "g", "a", "n", "i", "z", "a", "t", "i", "o", "n">> \o DotTs>>],
     [id |-> "./src/CompanyLib/TechCompany.ts",
      segs |-> <<SrcStr,
                 CompanyLibStr,
                 <<"T", "e", "c", "h", "C", "o", "m", "p", "a", "n", "y">> \o DotTs>>],
     [id |-> "./src/ProductLib/Order.ts",
      segs |-> <<SrcStr,
                 ProductLibStr,
                 <<"O", "r", "d", "e", "r">> \o DotTs>>],
     [id |-> "./src/ProductLib/TShirt.ts",
      segs |-> <<SrcStr,
                 ProductLibStr,
                 <<"T", "S", "h", "i", "r", "t">> \o DotTs>>],
     [id |-> "./src/ProductLib/TShirtSizes.ts",
      segs |-> <<SrcStr,
                 ProductLibStr,
                 <<"T", "S", "h", "i", "r", "t", "S", "i", "z", "e", "s">> \o DotTs>>],
     [id |-> "./src/ProductLib/Catalog.ts",
      segs |-> <<SrcStr,
                 ProductLibStr,
                 <<"C", "a", "t", "a", "l", "o", "g">> \o DotTs>>],
     [id |-> "./src/ProductLib/Price.ts",
      segs |-> <<SrcStr,
                 ProductLibStr,
                 <<"P", "r", "i", "c", "e">> \o DotTs>>],
     [id |-> "./src/ProductLib/Currency.ts",
      segs |-> <<SrcStr,
                 ProductLibStr,
                 <<"C", "u", "r", "r", "e", "n", "c", "y">> \o DotTs>>],
     [id |-> "./src/ProductLib/Product.ts",
      segs |-> <<SrcStr,
                 ProductLibStr,
                 <<"P", "r", "o", "d", "u", "c", "t">> \o DotTs>>],
     [id |-> "./src/ProductLib/MobilePhone.ts",
      segs |-> <<SrcStr,
                 ProductLibStr,
                 <<"M", "o", "b", "i", "l", "e", "P", "h", "o", "n", "e">> \o DotTs>>],
     [id |-> "./src/ProductLib/PhoneNumber.ts",
      segs |-> <<SrcStr,
                 ProductLibStr,
                 <<"P", "h", "o", "n", "e", "N", "u", "m", "b", "e", "r">> \o DotTs>>],
     [id |-> "./src/AnimalLib/Animal.ts",
      segs |-> <<SrcStr,
                 AnimalLibStr,
                 <<"A", "n", "i", "m", "a", "l">> \o DotTs>>],
     [id |-> "./src/AnimalLib/Mammals/Cat.ts",
      segs |-> <<SrcStr,
                 AnimalLibStr,
                 MammalsStr,
                 <<"C", "a", "t">> \o DotTs>>],
     [id |-> "./src/AnimalLib/Mammals/Dog.ts",
      segs |-> <<SrcStr,
                 AnimalLibStr,
                 MammalsStr,
                 <<"D", "o", "g">> \o DotTs>>],
     [id |-> "./src/AnimalLib/Reptiles/Snake.ts",
      segs |-> <<SrcStr,
                 AnimalLibStr,
                 ReptilesStr,
                 <<"S", "n", "a", "k", "e">> \o DotTs>>],
     [id |-> "./src/AnimalLib/Birds/Hawk.ts",
      segs |-> <<SrcStr,
                 AnimalLibStr,
                 BirdsStr,
                 <<"H", "a", "w", "k">> \o DotTs>>],
     [id |-> "./src/AnimalLib/Cat.ts",
      segs |-> <<SrcStr,
                 AnimalLibStr,
                 <<"C", "a", "t">> \o DotTs>>],
     [id |-> "./src/AnimalLib/Dog.ts",
      segs |-> <<SrcStr,
                 AnimalLibStr,
                 <<"D", "o", "g">> \o DotTs>>],
     [id |-> "./src/AnimalLib/index.ts",
      segs |-> <<SrcStr,
                 AnimalLibStr,
                 <<"i", "n", "d", "e", "x">> \o DotTs>>],
     [id |-> "./src/CompanyLib/index.ts",
      segs |-> <<SrcStr,
                 CompanyLibStr,
                 <<"i", "n", "d", "e", "x">> \o DotTs>>],
     [id |-> "./src/ProductLib/index.ts",
      segs |-> <<SrcStr,
                 ProductLibStr,
                 <<"i", "n", "d", "e", "x">> \o DotTs>>],
     [id |-> "./node_modules/jquery/dist/jquery.js",
      segs |-> <<NodeModulesStr,
                 JqueryStr,
                 DistStr,
                 <<"j", "q", "u", "e", "r", "y">> \o DotJs>>],
     [id |-> "./node_modules/typescript-collections/dist/lib/umd.js",
      segs |-> <<NodeModulesStr,
                 TypescriptCollectionsStr,
                 DistStr,
                 LibStr,
                 <<"u", "m", "d">> \o DotJs>>]}

ModuleIds == {m.id : m \in Modules}

\* The path of the module known as id.
ModulePath(id, sep) == JoinPath((CHOOSE m \in Modules : m.id = id).segs, sep)

\* The import statements: <<a, b>> when module a imports module b.
\* main2.ts imports Cat and Dog from ./AnimalLib/Mammals, from ./AnimalLib/Cat
\* and ./AnimalLib/Dog, or from ./AnimalLib, according to the version of the
\* file, and main.ts imports the classes from their files or from ./CompanyLib
\* and ./ProductLib, the index files that export them again; the imports of
\* every version are here.
Imports ==
    {<<"./src/main.ts", "./node_modules/jquery/dist/jquery.js">>,
     <<"./src/main.ts", "./src/CompanyLib/Person.ts">>,
     <<"./src/main.ts", "./src/CompanyLib/Organization.ts">>,
     <<"./src/main.ts", "./src/CompanyLib/TechCompany.ts">>,
     <<"./src/main.ts", "./src/ProductLib/Order.ts">>,
     <<"./src/main.ts", "./src/ProductLib/TShirt.ts">>,
     <<"./src/main.ts", "./src/ProductLib/Catalog.ts">>,
     <<"./src/main.ts", "./src/ProductLib/Price.ts">>,
     <<"./src/main2.ts", "./src/AnimalLib/Mammals/Cat.ts">>,
     <<"./src/main2.ts", "./src/AnimalLib/Mammals/Dog.ts">>,
     <<"./src/main3.ts", "./src/AnimalLib/Reptiles/Snake.ts">>,
     <<"./src/main3.ts", "./src/AnimalLib/Birds/Hawk.ts">>,
     <<"./src/CompanyLib/Organization.ts", "./node_modules/typescript-collections/dist/lib/umd.js">>,
     <<"./src/CompanyLib/Organization.ts", "./src/CompanyLib/Person.ts">>,
     <<"./src/CompanyLib/TechCompany.ts", "./src/CompanyLib/Organization.ts">>,
     <<"./src/ProductLib/Order.ts", "./src/ProductLib/Product.ts">>,
     <<"./src/ProductLib/TShirt.ts", "./src/ProductLib/Product.ts">>,
     <<"./src/ProductLib/TShirt.ts", "./src/ProductLib/Price.ts">>,
     <<"./src/ProductLib/TShirt.ts", "./src/ProductLib/TShirtSizes.ts">>,
     <<"./src/ProductLib/TShirt.ts", "./src/CompanyLib/Organization.ts">>,
     <<"./src/ProductLib/Catalog.ts", "./node_modules/typescript-collections/dist/lib/umd.js">>,
     <<"./src/ProductLib/Catalog.ts", "./src/ProductLib/Product.ts">>,
     <<"./src/ProductLib/Price.ts", "./src/ProductLib/Currency.ts">>,
     <<"./src/ProductLib/Product.ts", "./src/ProductLib/Price.ts">>,
     <<"./src/ProductLib/Product.ts", "./src/CompanyLib/Organization.ts">>,
     <<"./src/ProductLib/MobilePhone.ts", "./src/ProductLib/Price.ts">>,
     <<"./src/ProductLib/MobilePhone.ts", "./src/ProductLib/Currency.ts">>,
     <<"./src/ProductLib/MobilePhone.ts", "./src/ProductLib/Product.ts">>,
     <<"./src/ProductLib/MobilePhone.ts", "./src/ProductLib/PhoneNumber.ts">>,
     <<"./src/AnimalLib/Mammals/Cat.ts", "./src/AnimalLib/Animal.ts">>,
     <<"./src/AnimalLib/Mammals/Dog.ts", "./src/AnimalLib/Animal.ts">>,
     <<"./src/AnimalLib/Reptiles/Snake.ts", "./src/AnimalLib/Animal.ts">>,
     <<"./src/AnimalLib/Birds/Hawk.ts", "./src/AnimalLib/Animal.ts">>,
     <<"./src/main2.ts", "./src/AnimalLib/Cat.ts">>,
     <<"./src/main2.ts", "./src/AnimalLib/Dog.ts">>,
     <<"./src/main2.ts", "./src/AnimalLib/index.ts">>,
     <<"./src/AnimalLib/index.ts", "./src/AnimalLib/Animal.ts">>,
     <<"./src/AnimalLib/index.ts", "./src/AnimalLib/Cat.ts">>,
     <<"./src/AnimalLib/index.ts", "./src/AnimalLib/Dog.ts">>,
     <<"./src/AnimalLib/Cat.ts", "./src/AnimalLib/Animal.ts">>,
     <<"./src/AnimalLib/Dog.ts", "./src/AnimalLib/Animal.ts">>,
     <<"./src/ProductLib/TShirt.ts", "./src/CompanyLib/index.ts">>,
     <<"./src/ProductLib/MobilePhone.ts", "./src/CompanyLib/index.ts">>,
     <<"./src/CompanyLib/index.ts", "./src/CompanyLib/Person.ts">>,
     <<"./src/CompanyLib/index.ts", "./src/CompanyLib/Organization.ts">>,
     <<"./src/CompanyLib/index.ts", "./src/CompanyLib/TechCompany.ts">>,
     <<"./src/main.ts", "./src/CompanyLib/index.ts">>,
     <<"./src/main.ts", "./src/ProductLib/index.ts">>,
     <<"./src/ProductLib/index.ts", "./src/ProductLib/Catalog.ts">>,
     <<"./src/ProductLib/index.ts", "./src/ProductLib/Order.ts">>,
     <<"./src/ProductLib/index.ts", "./src/ProductLib/Currency.ts">>,
     <<"./src/ProductLib/index.ts", "./src/ProductLib/Price.ts">>,
     <<"./src/ProductLib/index.ts", "./src/ProductLib/Product.ts">>,
     <<"./src/ProductLib/index.ts", "./src/ProductLib/TShirt.ts">>,
     <<"./src/ProductLib/index.ts", "./src/ProductLib/TShirtSizes.ts">>,
     <<"./src/ProductLib/index.ts", "./src/ProductLib/PhoneNumber.ts">>,
     <<"./src/ProductLib/index.ts", "./src/ProductLib/MobilePhone.ts">>}

\* The modules that the modules of S import, directly or through others, and
\* those of S.
RECURSIVE Reachable(_)
Reachable(S) ==
    LET T == S \cup {p[2] : p \in {q \in Imports : q[1] \in S}} IN
    IF T = S THEN S ELSE Reachable(T)

\* The modules of the dependency graph that webpack builds from the entry e.
ModulesOfEntry(e) == Reachable({e.file})

EntrySet == {Entry[i] : i \in 1..Len(Entry)}

\* The cache groups whose test matches the path, by their place in the
\* configuration.
MatchingGroups(path, sep) ==
    {i \in 1..Len(CacheGroups(sep)) : RegExpTest(CacheGroups(sep)[i].test, path)}

\* The names of the chunks of the cache groups whose test matches the path.
MatchingChunks(path, sep) ==
    {CacheGroups(sep)[i].name : i \in MatchingGroups(path, sep)}

----------------------------------------------------------------------------
(* The chunk specification: the tests of the cache groups applied to one   *)
(* module path, that of a module of the application or that of a file of   *)
(* some name in one of its directories.                                    *)

FileNameChars == {"t", "s", "a", ".", "\n"}

\* The directories that hold the modules.
ModuleDirs == {SubSeq(m.segs, 1, Len(m.segs) - 1) : m \in Modules}

\* The paths tested: the modules, and a .ts file of every short name in every
\* directory.
PathInputs ==
    {m.segs : m \in Modules}
        \cup {Append(d, f \o DotTs) :
                d \in ModuleDirs, f \in StringsUpTo(FileNameChars, MaxFileNameLen)}

InitChunks ==
    /\ DomainIdle
    /\ CompanyIdle
    /\ ToolsIdle
    /\ \E segs \in PathInputs, sep \in PathSeps :
          call = [op |-> "cacheGroups", args |-> <<segs, sep>>, res |-> Undefined]
    /\ pc = "call"

\* splitChunks tests the path of the module against every cache group.
TestCacheGroups ==
    /\ pc = "call"
    /\ call' = [call EXCEPT !.res =
                   [k |-> "chunks",
                    path |-> JoinPath(call.args[1], call.args[2]),
                    matches |-> MatchingChunks(JoinPath(call.args[1], call.args[2]),
                                               call.args[2])]]
    /\ pc' = "return"
    /\ UNCHANGED <<domainVars, companyVars, toolVars>>

NextChunks == TestCacheGroups

SpecChunks == InitChunks /\ [][NextChunks]_vars

----------------------------------------------------------------------------
(* The build: webpack writes one bundle for every chunk.                   *)

\* The modules that webpack reaches from main.ts, main2.ts and main3.ts.
ReachableFromEntries == UNION {ModulesOfEntry(e) : e \in EntrySet}

\* The chunks of the module without splitChunks: those of the entries that
\* reach it.
ChunksOfUnsplit(id, sep) == {e.name : e \in {f \in EntrySet : id \in ModulesOfEntry(f)}}

\* The chunks that hold the module: that of the cache group whose test matches
\* its path (enforce: true), or else those of the entries that reach it.
ChunksOf(id, sep) ==
    IF MatchingChunks(ModulePath(id, sep), sep) # {}
    THEN MatchingChunks(ModulePath(id, sep), sep)
    ELSE {e.name : e \in {f \in EntrySet : id \in ModulesOfEntry(f)}}

ChunkTable == [sep \in PathSeps |-> [id \in ReachableFromEntries |-> ChunksOf(id, sep)]]

\* The modules of the chunk.
ChunkModules(chunk, sep) == {id \in ReachableFromEntries : chunk \in ChunkTable[sep][id]}

\* The chunks of the build.
ChunkNames(sep) == UNION {ChunkTable[sep][id] : id \in ReachableFromEntries}

\* output.filename: that of webpack.config.js and that of the README.
NameBundle == "[name].bundle.js"
NameChunkhashBundle == "[name]-[chunkhash:6].bundle.js"
OutputFilenames == {NameBundle, NameChunkhashBundle}

\* [chunkhash]: a digest of the contents of the modules of the chunk, held as
\* the contents themselves.
ChunkHash(chunk, contents, sep) == [id \in ChunkModules(chunk, sep) |-> contents[id]]

\* The name of the bundle of the chunk.
AssetName(filename, chunk, contents, sep) ==
    IF filename = NameChunkhashBundle
    THEN [name |-> chunk, chunkhash |-> ChunkHash(chunk, contents, sep)]
    ELSE [name |-> chunk, chunkhash |-> Undefined]

\* The names of the bundles of a build.
Assets(filename, contents, sep) ==
    [chunk \in ChunkNames(sep) |-> AssetName(filename, chunk, contents, sep)]

InitBuild ==
    /\ DomainIdle
    /\ CompanyIdle
    /\ call = NoCall
    /\ pc = "shell"
    /\ page = Undefined
    /\ gulp = Undefined
    /\ \E filename \in OutputFilenames, sep \in PathSeps :
          build = [k |-> "build",
                   filename |-> filename,
                   sep |-> sep,
                   contents |-> [id \in ReachableFromEntries |-> 0],
                   edits |-> 0,
                   changed |-> {},
                   assets |-> Undefined,
                   previous |-> Undefined,
                   between |-> {}]

\* The developer changes the content of a module, not its imports.
EditModule(id) ==
    /\ build.edits < MaxEdits
    /\ build' = [build EXCEPT !.contents[id] = @ + 1,
                              !.edits = @ + 1,
                              !.changed = @ \cup {id}]
    /\ UNCHANGED <<domainVars, companyVars, call, pc, page, gulp>>

\* $ webpack --env prod
RunWebpack ==
    /\ build' = [build EXCEPT !.assets = Assets(build.filename, build.contents, build.sep),
                              !.previous = build.assets,
                              !.between = build.changed,
                              !.changed = {}]
    /\ UNCHANGED <<domainVars, companyVars, call, pc, page, gulp>>

NextBuild ==
    \/ \E id \in ReachableFromEntries : EditModule(id)
    \/ RunWebpack

SpecBuild == InitBuild /\ [][NextBuild]_vars

----------------------------------------------------------------------------
(* The page: an HTML file with the script tags of some bundles, and the    *)
(* loader that the bundle of the entry carries.                            *)

EntryNames == {e.name : e \in EntrySet}

EntryNamed(name) == CHOOSE e \in EntrySet : e.name = name

\* The chunks of the modules that the entry imports itself.
EntryChunksDirect(e, sep) ==
    UNION {ChunkTable[sep][p[2]] : p \in {q \in Imports : q[1] = e.file}}
        \ {e.name}

\* The chunks, other than its own, that hold the modules of the entry: the
\* bundles of "Entrypoint main = ..." in the output of the build.
EntryChunks(e, sep) ==
    UNION {ChunkTable[sep][id] : id \in ModulesOfEntry(e)} \ {e.name}

\* The modules of the entry whose chunk the page has not installed.
MissingModules(p) ==
    {id \in ModulesOfEntry(EntryNamed(p.entry)) :
        ChunkTable[p.sep][id] \cap p.installedChunks = {}}

\* checkDeferredModules(): the entry module runs once the chunks it waits for
\* are installed; a module it requires from a chunk that is not installed
\* throws.
CheckDeferredModules(p) ==
    IF p.waiting /\ p.deferredModules \subseteq p.installedChunks
    THEN [p EXCEPT !.waiting = FALSE,
                   !.deferredModules = {},
                   !.runs = @ + 1,
                   !.ranWith = p.installedChunks,
                   !.errors = IF MissingModules(p) # {} THEN @ + 1 ELSE @]
    ELSE p

\* webpackJsonpCallback(data): the chunk is installed, then the deferred
\* modules are checked.
WebpackJsonpCallback(p, chunk) ==
    CheckDeferredModules([p EXCEPT !.installedChunks = @ \cup {chunk}])

\* The bundle of a library chunk: (window.webpackJsonp = window.webpackJsonp
\* || []).push(...), which is the callback once the loader has replaced push.
LoadLibraryBundle(p, chunk) ==
    IF p.runtime
    THEN WebpackJsonpCallback(p, chunk)
    ELSE [p EXCEPT !.webpackJsonp = @ \cup {chunk}]

\* The bundle of the entry: the loader installs the chunks pushed so far,
\* replaces push, and defers the entry module until the chunks of the entry
\* are installed.
LoadEntryBundle(p, sep) ==
    CheckDeferredModules(
        [p EXCEPT !.runtime = TRUE,
                  !.installedChunks = {p.entry} \cup p.webpackJsonp,
                  !.waiting = TRUE,
                  !.deferredModules = EntryChunks(EntryNamed(p.entry), sep)])

LibraryChunkNames == {CacheGroups("/")[i].name : i \in 1..Len(CacheGroups("/"))}

InitPage ==
    /\ DomainIdle
    /\ CompanyIdle
    /\ call = NoCall
    /\ pc = "browser"
    /\ build = Undefined
    /\ gulp = Undefined
    /\ \E entry \in EntryNames, tags \in SUBSET LibraryChunkNames, sep \in PathSeps :
          page = [k |-> "page",
                  entry |-> entry,
                  sep |-> sep,
                  tags |-> tags \cup {entry},
                  loaded |-> {},
                  runtime |-> FALSE,
                  webpackJsonp |-> {},
                  installedChunks |-> {},
                  waiting |-> FALSE,
                  deferredModules |-> {},
                  runs |-> 0,
                  ranWith |-> {},
                  errors |-> 0]

\* The browser runs the script of one of the tags, in any order.
LoadScript(chunk) ==
    /\ chunk \in page.tags \ page.loaded
    /\ page' = [(IF chunk = page.entry
                 THEN LoadEntryBundle(page, page.sep)
                 ELSE LoadLibraryBundle(page, chunk))
                    EXCEPT !.loaded = @ \cup {chunk}]
    /\ UNCHANGED <<domainVars, companyVars, call, pc, build, gulp>>

NextPage == \E chunk \in LibraryChunkNames \cup EntryNames : LoadScript(chunk)

SpecPage == InitPage /\ [][NextPage]_vars

----------------------------------------------------------------------------
(* The gulp tasks.  $ gulp task runs the task and the tasks it depends on; *)
(* gulp starts a task when its dependencies are finished, and those with   *)
(* none together.  A task whose function returns its stream is finished    *)
(* when the stream ends; a task whose function returns nothing, or that    *)
(* has no function, is finished at once.  The source holds three versions  *)
(* of the gulpfile: gulpfile.js with the task files of gulp/, and the two  *)
(* single-file versions before it.                                         *)

\* A file of the build directory: dir is its directory under build/, dot says
\* that its name starts with a dot, fresh that the running build wrote it.
File(dir, name, ext, dot, fresh) ==
    [dir |-> dir, name |-> name, ext |-> ext, dot |-> dot, fresh |-> fresh]

FilePath(f) == <<f.dir, f.name>>

SOURCE_MAPS_DIR == "sourcemaps"

\* What a build before, or the developer, may have left in build/.
StaleFiles ==
    {File("", "allFiles-min.js", "js", FALSE, FALSE),
     File("", "allFiles.js", "js", FALSE, FALSE),
     File("", "AnimalLib.js", "js", FALSE, FALSE),
     File("", "main2.js", "js", FALSE, FALSE),
     File("", "allFiles-min.js.map", "map", FALSE, FALSE),
     File(SOURCE_MAPS_DIR, "allFiles-min.js.map", "map", FALSE, FALSE),
     File("", "index.html", "html", FALSE, FALSE),
     File("", ".babelrc.js", "js", TRUE, FALSE)}

Gulpfiles == {"gulpfile.js", "part_008", "part_009"}

\* The tasks that the gulpfile registers.
GulpTasks(gulpfile) ==
    IF gulpfile = "gulpfile.js"
    THEN {"js-clean-src", "clean-build", "js-browserify-single-file",
          "ts-browserify-single-file", "ts-browserify-minify-single-file",
          "ts-browserify-minify-single-file-keep-fnames",
          "ts-browserify-single-file-with-sourcemap",
          "ts-browserify-animal-module", "ts-browserify-main2", "debug", "prod"}
    ELSE IF gulpfile = "part_008"
    THEN {"js-src-clean", "clean", "copy-html", "debug", "prod"}
    ELSE {"js-src-clean", "clean-js", "copy-html", "debug", "prod"}

\* gulp.task(name, [dependencies], ...)
TaskDependencies(gulpfile, task) ==
    IF gulpfile = "gulpfile.js"
    THEN CASE task = "debug" ->
                 {"clean-build", "ts-browserify-single-file-with-sourcemap"}
           [] task = "prod" ->
                 {"clean-build", "ts-browserify-minify-single-file-keep-fnames"}
           [] task = "ts-browserify-main2" ->
                 {"js-clean-src", "clean-build", "ts-browserify-animal-module"}
           [] OTHER -> {}
    ELSE IF task \in {"debug", "prod"}
         THEN {IF gulpfile = "part_008" THEN "clean" ELSE "clean-js", "copy-html"}
         ELSE {}

\* The task and the tasks it depends on, directly or through others.
RECURSIVE TaskClosure(_, _)
TaskClosure(gulpfile, tasks) ==
    LET more == tasks \cup UNION {TaskDependencies(gulpfile, t) : t \in tasks} IN
    IF more = tasks THEN tasks ELSE TaskClosure(gulpfile, more)

\* The globs that the task hands to gulp.src to delete from build/ what they
\* find; none for every other task.
CleanGlobs(gulpfile, task) ==
    IF gulpfile = "gulpfile.js" /\ task = "clean-build" THEN {"**/*.js", "**/*.map"}
    ELSE IF gulpfile = "part_008" /\ task = "clean" THEN {"*"}
    ELSE IF gulpfile = "part_009" /\ task = "clean-js" THEN {"*"}
    ELSE {}

\* The task of the gulpfile that deletes from build/.
CleanTask(gulpfile) ==
    CHOOSE t \in GulpTasks(gulpfile) : CleanGlobs(gulpfile, t) # {}

\* Does the glob, under ./build/, match the file?  * matches no leading dot
\* and no separator, **/ any directories.
GlobMatches(glob, f) ==
    /\ ~f.dot
    /\ CASE glob = "**/*.js" -> f.ext = "js"
         [] glob = "**/*.map" -> f.ext = "map"
         [] glob = "*" -> f.dir = ""

\* The regular expression given to deleteFile, tested on the file: /.*\.js$|.*\.map$/
\* in clean-build, /.*/ in clean, and in clean-js /.*\.js/, which has no
\* anchor and so matches allFiles-min.js.map as well.
RegexpMatches(gulpfile, f) ==
    IF gulpfile = "gulpfile.js" THEN f.ext \in {"js", "map"}
    ELSE IF gulpfile = "part_008" THEN TRUE
    ELSE f.ext = "js" \/ f.name = "allFiles-min.js.map"

\* The files that the stream returned by the function of the task writes with
\* gulp.dest; none when the function returns no stream or there is none.
TaskOutputs(gulpfile, task) ==
    IF gulpfile = "gulpfile.js"
    THEN CASE task \in {"js-browserify-single-file", "ts-browserify-single-file"} ->
                 {File("", "allFiles.js", "js", FALSE, TRUE)}
           [] task \in {"ts-browserify-minify-single-file",
                        "ts-browserify-minify-single-file-keep-fnames"} ->
                 {File("", "allFiles-min.js", "js", FALSE, TRUE)}
           [] task = "ts-browserify-single-file-with-sourcemap" ->
                 {File("", "allFiles-min.js", "js", FALSE, TRUE),
                  File(SOURCE_MAPS_DIR, "allFiles-min.js.map", "map", FALSE, TRUE)}
           [] task = "ts-browserify-animal-module" ->
                 {File("", "AnimalLib.js", "js", FALSE, TRUE)}
           [] task = "ts-browserify-main2" ->
                 {File("", "main2.js", "js", FALSE, TRUE)}
           [] OTHER -> {}
    ELSE CASE task = "copy-html" -> {File("", "index.html", "html", FALSE, TRUE)}
           [] task = "debug" ->
                 {File("", "allFiles-min.js", "js", FALSE, TRUE),
                  File("", "allFiles-min.js.map", "map", FALSE, TRUE)}
           [] task = "prod" -> {File("", "allFiles-min.js", "js", FALSE, TRUE)}
           [] OTHER -> {}

\* gulp.dest: the file is written over that of the same path.
WriteFiles(dir, files) ==
    {f \in dir : \A g \in files : FilePath(g) # FilePath(f)} \cup files

\* deleteFile({reg: regexp, deleteMatch: true}) on the file of the path.
DeleteFile(gulpfile, dir, path) ==
    {f \in dir : ~(FilePath(f) = path /\ RegexpMatches(gulpfile, f))}

\* The directories under build/ that hold a file.
SubDirectories(dir) == {f.dir : f \in dir} \ {""}

\* gulp starts the tasks: each is started; one that deletes from build/ has
\* its stream begin to read build/, once for each glob; one that returns a
\* stream has the files of the stream to write, and is finished at the end
\* of the stream; any other is finished.
StartTasks(g, tasks) ==
    [g EXCEPT
        !.started = @ \cup tasks,
        !.reads = @ \cup {<<glob, "">> :
                            glob \in UNION {CleanGlobs(g.gulpfile, t) : t \in tasks}},
        !.writes = @ \cup UNION {{<<t, f>> : f \in TaskOutputs(g.gulpfile, t)} :
                                    t \in tasks},
        !.done = @ \cup {t \in tasks : TaskOutputs(g.gulpfile, t) = {}}]

\* gulp starts every task whose dependencies are finished, until none is
\* left to start, and reports the run finished when every task is.
RECURSIVE Orchestrate(_)
Orchestrate(g) ==
    LET all == TaskClosure(g.gulpfile, {g.task})
        ready == {t \in all \ g.started : TaskDependencies(g.gulpfile, t) \subseteq g.done} IN
    IF ready = {} THEN [g EXCEPT !.finished = all \subseteq g.done]
    ELSE Orchestrate(StartTasks(g, ready))

\* The stream of the task that deletes from build/ has been started.
CleanStarted(g) ==
    g.task # "none" /\ \E t \in g.started : CleanGlobs(g.gulpfile, t) # {}

\* That stream has read build/ and deleted what it found.
CleanDone(g) == CleanStarted(g) /\ g.reads = {} /\ g.matched = {}

InitGulp ==
    /\ DomainIdle
    /\ CompanyIdle
    /\ call = NoCall
    /\ pc = "shell"
    /\ build = Undefined
    /\ page = Undefined
    /\ \E stale \in SUBSET StaleFiles :
          /\ Cardinality(stale) <= MaxStaleFiles
          /\ gulp = [k |-> "gulp",
                     gulpfile |-> "none",
                     task |-> "none",
                     buildDir |-> stale,
                     started |-> {},
                     done |-> {},
                     reads |-> {},
                     matched |-> {},
                     writes |-> {},
                     finished |-> FALSE]

\* $ gulp task, with one of the gulpfiles.
RunGulp(gulpfile, task) ==
    /\ gulp.task = "none"
    /\ task \in GulpTasks(gulpfile)
    /\ gulp' = Orchestrate([gulp EXCEPT !.gulpfile = gulpfile, !.task = task])
    /\ UNCHANGED <<domainVars, companyVars, call, pc, build, page>>

\* The stream of gulp.src reads one directory for one glob: the files that
\* the glob matches go on to deleteFile, and for **/ the directories found
\* are left to read.
CleanGlob(glob, dir) ==
    /\ <<glob, dir>> \in gulp.reads
    /\ gulp' = [gulp EXCEPT
                   !.matched = @ \cup {FilePath(f) :
                                         f \in {h \in gulp.buildDir :
                                                  h.dir = dir /\ GlobMatches(glob, h)}},
                   !.reads = (@ \ {<<glob, dir>>}) \cup
                             (IF dir = "" /\ glob # "*"
                              THEN {<<glob, d>> : d \in SubDirectories(gulp.buildDir)}
                              ELSE {})]
    /\ UNCHANGED <<domainVars, companyVars, call, pc, build, page>>

\* The stream hands one file to deleteFile.
CleanDelete(path) ==
    /\ path \in gulp.matched
    /\ gulp' = [gulp EXCEPT !.buildDir = DeleteFile(gulp.gulpfile, @, path),
                            !.matched = @ \ {path}]
    /\ UNCHANGED <<domainVars, companyVars, call, pc, build, page>>

\* gulp.dest writes one file of the stream of the task.
WriteBundle(task, f) ==
    /\ <<task, f>> \in gulp.writes
    /\ gulp' = [gulp EXCEPT !.buildDir = WriteFiles(@, {f}),
                            !.writes = @ \ {<<task, f>>}]
    /\ UNCHANGED <<domainVars, companyVars, call, pc, build, page>>

\* The stream of the task ends, its files written: the task is finished, and
\* gulp starts the tasks that waited for it.
EndStream(task) ==
    /\ task \in gulp.started \ gulp.done
    /\ \A w \in gulp.writes : w[1] # task
    /\ gulp' = Orchestrate([gulp EXCEPT !.done = @ \cup {task}])
    /\ UNCHANGED <<domainVars, companyVars, call, pc, build, page>>

AllGulpTasks == UNION {GulpTasks(gulpfile) : gulpfile \in Gulpfiles}

AllTaskOutputs ==
    UNION {TaskOutputs(gulpfile, t) : gulpfile \in Gulpfiles, t \in AllGulpTasks}

NextGulp ==
    \/ \E gulpfile \in Gulpfiles, task \in AllGulpTasks : RunGulp(gulpfile, task)
    \/ \E glob \in {"**/*.js", "**/*.map", "*"}, dir \in {"", SOURCE_MAPS_DIR} :
          CleanGlob(glob, dir)
    \/ \E f \in StaleFiles \cup AllTaskOutputs : CleanDelete(FilePath(f))
    \/ \E task \in AllGulpTasks, f \in AllTaskOutputs : WriteBundle(task, f)
    \/ \E task \in AllGulpTasks : EndStream(task)

SpecGulp == InitGulp /\ [][NextGulp]_vars

----------------------------------------------------------------------------
(* main.ts, lines 10 to 43, one action per statement.  pc names the line   *)
(* to run next; an exception no statement catches ends the script with pc  *)
(* = "uncaught" and the error in call.res.  page is the document of        *)
(* index.html, with or without the paragraph of id employees.              *)

\* <p id="employees">EMPTY</p>
EmptyParagraph == [k |-> "text", chars |-> "EMPTY"]

\* The document, whose paragraph of id employees is para, undefined when the
\* document has none.
Document(para) == [k |-> "document", employees |-> para]

\* $para.html(html): the content of every element matched, and there is none
\* when the document has no such paragraph.
JQueryHtml(doc, html) ==
    IF doc.employees = Undefined THEN doc ELSE [doc EXCEPT !.employees = html]

InitMain ==
    /\ CompanyIdle
    /\ build = Undefined
    /\ gulp = Undefined
    /\ \E para \in {Undefined, EmptyParagraph} : page = Document(para)
    /\ numProductsSoFar = 0
    /\ products = <<>>
    /\ catalog = Undefined
    /\ \E seed \in 0..MaxMainSeed : numOrdersCreatedSoFar = seed
    /\ o = Undefined
    /\ ralphLauren = Undefined
    /\ call = NoCall
    /\ pc = "L10"

\* let amazon = new TechCompany("Amazon", "amazon.com");
Main10 ==
    /\ pc = "L10"
    /\ amazon' = TechCompanyCtor(Amazon, AmazonCom, Undefined, Undefined)
    /\ call' = [op |-> "new TechCompany", args |-> <<Amazon, AmazonCom>>, res |-> amazon']
    /\ pc' = "L13"
    /\ UNCHANGED <<domainVars, toolVars, persons, orgs>>

\* amazon.addEmployee(new Person(id, name)); in showEmployees(), called at
\* line 18.
MainAddEmployee(line, next, id, name) ==
    /\ pc = line
    /\ LET e == PersonCtor(Len(persons) + 1, id, name) IN
       /\ persons' = Append(persons, e)
       /\ amazon' = OrganizationAddEmployee(amazon, e)
       /\ call' = [op |-> "addEmployee", args |-> <<e>>, res |-> Undefined]
    /\ pc' = next
    /\ UNCHANGED <<domainVars, toolVars, orgs>>

\* amazon.addEmployee(new Person(1, "John Smith"));
Main13 == MainAddEmployee("L13", "L14", 1, JohnSmith)

\* amazon.addEmployee(new Person(2, "Johanna Smith"));
Main14 == MainAddEmployee("L14", "L15", 2, JohannaSmith)

\* let $para = $("#employees"); $para.html(amazon.getHTMLString());
Main15 ==
    /\ pc = "L15"
    /\ page' = JQueryHtml(page, TechCompanyGetHTMLString(amazon))
    /\ call' = [op |-> "html", args |-> <<>>, res |-> TechCompanyGetHTMLString(amazon)]
    /\ pc' = "L27"
    /\ UNCHANGED <<domainVars, companyVars, build, gulp>>

\* let cocaCola = new Organization("Coca cola");
\* let pepsi = new Organization("Pepsi");
MainNewOrganization(line, next, name) ==
    /\ pc = line
    /\ orgs' = Append(orgs, OrganizationCtor(name))
    /\ call' = [op |-> "new Organization", args |-> <<name>>, res |-> OrganizationCtor(name)]
    /\ pc' = next
    /\ UNCHANGED <<domainVars, toolVars, persons, amazon>>

Main27 == MainNewOrganization("L27", "L28", "Coca cola")

Main28 == MainNewOrganization("L28", "L29", "Pepsi")

\* console.log(pepsi.toString() == cocaCola.toString());
Main29 ==
    /\ pc = "L29"
    /\ call' = [op |-> "console.log", args |-> <<>>,
                res |-> IF ToString(orgs[2]) = ToString(orgs[1]) THEN JsTrue ELSE JsFalse]
    /\ pc' = "L31"
    /\ UNCHANGED <<domainVars, companyVars, toolVars>>

\* The line after line i of the three addProduct lines.
AfterShirtLine == <<"L34", "L35", "L36">>
ShirtLine == <<"L33", "L34", "L35">>

\* let ralphLauren = new Organization("Ralph Lauren");
Main31 ==
    /\ pc = "L31"
    /\ ralphLauren' = OrganizationCtor("Ralph Lauren")
    /\ call' = [op |-> "new Organization", args |-> <<"Ralph Lauren">>,
                res |-> ralphLauren']
    /\ pc' = "L32"
    /\ UNCHANGED <<otherVars, numProductsSoFar, products, catalog, numOrdersCreatedSoFar, o>>

\* let catalog: Catalog = new Catalog("Ralph Lauren sportswear");
Main32 ==
    /\ pc = "L32"
    /\ catalog' = CatalogCtor("Ralph Lauren sportswear")
    /\ call' = [op |-> "new Catalog", args |-> <<"Ralph Lauren sportswear">>,
                res |-> catalog']
    /\ pc' = "L33"
    /\ UNCHANGED <<otherVars, numProductsSoFar, products, numOrdersCreatedSoFar, o, ralphLauren>>

\* catalog.addProduct(new TShirt(name, ralphLauren, new Price(v, Currency.USD), size));
MainAddShirt(i) ==
    /\ pc = ShirtLine[i]
    /\ LET price == NewPrice(MainShirtPrices[i], "USD")
           made == TShirtCtor(numProductsSoFar, MainShirtNames[i], ralphLauren,
                              price, MainShirtSizes[i])
           r == AddProduct(catalog, made.self) IN
       IF IsThrow(price)
       THEN /\ call' = [op |-> "new Price", args |-> <<MainShirtPrices[i], "USD">>,
                        res |-> price]
            /\ pc' = "uncaught"
            /\ UNCHANGED <<otherVars, numProductsSoFar, products, catalog>>
       ELSE /\ numProductsSoFar' = made.numProductsSoFar
            /\ products' = Append(products, made.self)
            /\ catalog' = r.catalog
            /\ call' = [op |-> "addProduct", args |-> <<made.self>>, res |-> r.res]
            /\ pc' = AfterShirtLine[i]
    /\ UNCHANGED <<otherVars, numOrdersCreatedSoFar, o, ralphLauren>>

\* console.log(catalog.toString());
Main36 ==
    /\ pc = "L36"
    /\ call' = [op |-> "toString", args |-> <<>>,
                res |-> [k |-> "string", lines |-> GetCatalogString(catalog)]]
    /\ pc' = "L37"
    /\ UNCHANGED <<otherVars, numProductsSoFar, products, catalog, numOrdersCreatedSoFar, o,
                   ralphLauren>>

\* let o = new Order();
Main37 ==
    /\ pc = "L37"
    /\ numOrdersCreatedSoFar' = OrderCtor(numOrdersCreatedSoFar).numOrdersCreatedSoFar
    /\ o' = OrderCtor(numOrdersCreatedSoFar).self
    /\ call' = [op |-> "new Order", args |-> <<>>, res |-> o']
    /\ pc' = "L38"
    /\ UNCHANGED <<otherVars, numProductsSoFar, products, catalog, ralphLauren>>

\* o.addItem(catalog.selectProductFromCatalog(productId), quantity);
MainAddItem(line, next, productId, quantity) ==
    /\ pc = line
    /\ LET product == SelectProductFromCatalog(catalog, productId)
           r == AddItem(o, product, quantity) IN
       /\ o' = r.order
       /\ call' = [op |-> "addItem", args |-> <<product, quantity>>, res |-> r.res]
       /\ pc' = IF IsThrow(r.res) THEN "uncaught" ELSE next
    /\ UNCHANGED <<otherVars, numProductsSoFar, products, catalog, numOrdersCreatedSoFar,
                   ralphLauren>>

\* o.addItem(catalog.selectProductFromCatalog(1), 1);
Main38 == MainAddItem("L38", "L39", 1, Fin(1))

\* o.addItem(catalog.selectProductFromCatalog(3), 5);
Main39 == MainAddItem("L39", "L40", 3, Fin(5))

\* o.purchase();
Main40 ==
    /\ pc = "L40"
    /\ LET r == Purchase(o) IN
       /\ o' = r.order
       /\ call' = [op |-> "purchase", args |-> <<>>, res |-> r.res]
       /\ pc' = IF IsThrow(r.res) THEN "uncaught" ELSE "L41"
    /\ UNCHANGED <<otherVars, numProductsSoFar, products, catalog, numOrdersCreatedSoFar,
                   ralphLauren>>

\* console.log(o.getInvoice());
Main41 ==
    /\ pc = "L41"
    /\ LET r == GetInvoice(o) IN
       /\ o' = r.order
       /\ call' = [op |-> "getInvoice", args |-> <<>>, res |-> r.res]
       /\ pc' = IF IsThrow(r.res) THEN "uncaught" ELSE "L43"
    /\ UNCHANGED <<otherVars, numProductsSoFar, products, catalog, numOrdersCreatedSoFar,
                   ralphLauren>>

\* throw new EvalError("This is how an error appears, even on minified files.");
Main43 ==
    /\ pc = "L43"
    /\ call' = [op |-> "throw", args |-> <<>>, res |-> Throw("EvalError")]
    /\ pc' = "uncaught"
    /\ UNCHANGED <<otherVars, numProductsSoFar, products, catalog, numOrdersCreatedSoFar, o,
                   ralphLauren>>

NextMain ==
    \/ Main10
    \/ Main13
    \/ Main14
    \/ Main15
    \/ Main27
    \/ Main28
    \/ Main29
    \/ Main31
    \/ Main32
    \/ \E i \in 1..3 : MainAddShirt(i)
    \/ Main36
    \/ Main37
    \/ Main38
    \/ Main39
    \/ Main40
    \/ Main41
    \/ Main43

SpecMain == InitMain /\ [][NextMain]_vars

\* The script runs to its end: a statement that can run does run.
SpecMainFair == SpecMain /\ WF_vars(NextMain)

\* The order specification starts where main.ts stands before line 38.
MainReachesInit ==
    pc = "L38" =>
        /\ numProductsSoFar = 3
        /\ products = [i \in 1..3 |-> MainShirt(i)]
        /\ catalog = MainCatalog(3)
        /\ ralphLauren = OrganizationCtor("Ralph Lauren")
        /\ o = OrderCtor(numOrdersCreatedSoFar - 1).self

----------------------------------------------------------------------------
(* Properties of Order, under Spec. *)

\* C1: once purchase() has been called on the order (completed is set),
\* every addItem call raises the ReferenceError, whatever its product and
\* quantity, and no step changes the order's line items.
C1_CompletedOrderRejectsAddItem ==
    [][o.completed =>
          /\ o'.items = o.items
          /\ (call'.op = "addItem" => call'.res = Throw("ReferenceError"))]_vars

\* A completed order that holds an item and on which addItem has just raised.
C1_Witness ==
    /\ o.completed
    /\ Len(o.items) >= 1
    /\ call.op = "addItem"
    /\ call.res = Throw("ReferenceError")

\* The sum of unit price x quantity over line items that all have a product.
RECURSIVE SumPriceTimesQuantity(_)
SumPriceTimesQuantity(items) ==
    IF items = <<>> THEN Fin(0)
    ELSE Add(SumPriceTimesQuantity(SubSeq(items, 1, Len(items) - 1)),
             Mul(items[Len(items)].product.price.value, items[Len(items)].quantity))

\* A line item as the data model has it: a product and a positive integer
\* quantity.
IsWellFormedItem(item) ==
    /\ IsProduct(item.product)
    /\ item.quantity.k = "fin" /\ item.quantity.h % 2 = 0 /\ item.quantity.h > 0

\* C2: on an order whose line items are all well formed, getOrderTotal
\* returns the sum of unit price x quantity over all the line items added to
\* the order.
C2_TotalIsSumOfItems ==
    (call.op = "getOrderTotal"
        /\ \A i \in 1..Len(o.items) : IsWellFormedItem(o.items[i]))
    => call.res = SumPriceTimesQuantity(o.items)

\* C3: once the order's total has been computed, it never changes and every
\* getOrderTotal call returns it.
C3_TotalStableOnceComputed ==
    [][o.orderTotal # Undefined =>
          /\ o'.orderTotal = o.orderTotal
          /\ (call'.op = "getOrderTotal" => call'.res = o.orderTotal)]_vars

\* getOrderTotal has just returned the total computed while the order was
\* empty, although the order has since taken an item of total 20.
C3_Witness ==
    /\ call.op = "getOrderTotal"
    /\ call.res = Fin(0)
    /\ o.orderTotal = Fin(0)
    /\ Len(o.items) = 1
    /\ IsProduct(o.items[1].product)
    /\ GetItemTotal(o.items[1]) = Fin(20)

\* An integer: a finite number with no fractional part.
IsInteger(x) == x.k = "fin" /\ x.h % 2 = 0

\* C4: an addItem call whose quantity is not an integer returns false and
\* adds no line item.
C4_NonIntegerQuantityReturnsFalse ==
    [][(call'.op = "addItem" /\ ~IsInteger(call'.args[2])) =>
          /\ call'.res = JsFalse
          /\ o'.items = o.items]_vars

\* C5: the quantity of every line item of the order is a positive integer.
C5_QuantitiesArePositiveIntegers ==
    \A i \in 1..Len(o.items) :
        /\ o.items[i].quantity.k = "fin"
        /\ o.items[i].quantity.h % 2 = 0
        /\ o.items[i].quantity.h > 0

----------------------------------------------------------------------------
(* Properties of Price, Product and Catalog, under SpecCatalog. *)

IsConstruction(c) == c.op \in {"new TShirt", "new MobilePhone"}

\* Zero or negative, as the claim has it: NaN is neither.
IsZeroOrNegative(v) == v.k = "ninf" \/ (v.k = "fin" /\ v.h <= 0)
IsPositive(v) == v.k = "inf" \/ (v.k = "fin" /\ v.h > 0)

\* C6: new Price(value, currency) raises the EvalError when value is zero or
\* negative, so the price of no product is zero or negative; a positive value
\* is accepted and getValue returns it.
C6_PriceIsPositive ==
    /\ \A i \in 1..Len(products) : ~IsZeroOrNegative(GetValue(products[i]))
    /\ IsConstruction(call) =>
          /\ IsZeroOrNegative(call.args[3]) => call.res = Throw("EvalError")
          /\ IsPositive(call.args[3]) =>
                /\ IsProduct(call.res)
                /\ PriceGetValue(call.res.price) = call.args[3]

\* A product with a price exists, and a construction with price 0 has just
\* raised.
C6_Witness ==
    /\ Len(products) >= 1
    /\ GetValue(products[1]) = Fin(10)
    /\ IsConstruction(call)
    /\ call.args[3] = Fin(0)
    /\ call.res = Throw("EvalError")

\* The products the catalog holds.
CatalogProducts ==
    {catalog.productsList[i].value : i \in 1..Len(catalog.productsList)}

\* C8: selectProductFromCatalog(id) returns the product of the catalog whose
\* id is id, and undefined when the catalog has none; no two products of the
\* catalog have the same id.
C8_LookupReturnsTheProduct ==
    /\ \A p, q \in CatalogProducts : p.productId = q.productId => p = q
    /\ \A i, j \in 1..Len(catalog.productsList) :
          catalog.productsList[i].value = catalog.productsList[j].value => i = j
    /\ call.op = "selectProductFromCatalog" =>
          IF \E p \in CatalogProducts : p.productId = call.args[1]
          THEN call.res \in CatalogProducts /\ call.res.productId = call.args[1]
          ELSE call.res = Undefined

\* A lookup has just returned the product with id 1, which was added to the
\* catalog after the product with id 2.
C8_Witness ==
    /\ call.op = "selectProductFromCatalog"
    /\ call.args[1] = 1
    /\ Len(catalog.productsList) >= 2
    /\ catalog.productsList[1].value.productId = 2
    /\ call.res = catalog.productsList[2].value
    /\ call.res.productId = 1

\* C9: the i-th product constructed, of either subtype, has id i (so ids start
\* at 1, go up by one and are never shared), the static counter is the number
\* of products constructed, and a product constructed keeps its id.
C9_ProductIdsAreSequential ==
    /\ numProductsSoFar = Len(products)
    /\ \A i \in 1..Len(products) : IsProduct(products[i]) /\ products[i].productId = i
    /\ \A p \in CatalogProducts : \E i \in 1..Len(products) : products[i] = p

\* A TShirt and a MobilePhone have been constructed, one after the other.
C9_Witness ==
    /\ Len(products) >= 2
    /\ products[1].k = "MobilePhone" /\ products[1].productId = 1
    /\ products[2].k = "TShirt" /\ products[2].productId = 2

----------------------------------------------------------------------------
(* Properties of PhoneNumber, under SpecPhone. *)

\* A numeric digit string: one decimal digit or more, and nothing else.
IsDigitString(s) == Len(s) >= 1 /\ \A i \in 1..Len(s) : s[i] \in DecimalDigits

\* C7: new PhoneNumber(countrycode, phoneNumberString) raises whenever the
\* country code is empty or the subscriber string is not a numeric digit
\* string, so that it succeeds only for a non-empty country code and a
\* numeric digit string.
C7_PhoneNumberIsValidated ==
    (pc = "return" /\ (call.args[1] = <<>> \/ ~IsDigitString(call.args[2])))
    => IsThrow(call.res)

----------------------------------------------------------------------------
(* Properties of main.ts, under SpecMain. *)

\* C10: in main.ts (a catalog with a shirt at 10 USD and one at 5 USD, a new
\* order, 1 of the first and 5 of the second, purchase) the order total is 35
\* once purchase has returned, and the invoice has two lines, of subtotals 10
\* and 25 in USD, and the total 35.
C10_ScenarioTotalIs35 ==
    /\ pc \in {"L41", "L43"} =>
          /\ o.completed
          /\ GetOrderTotal(o).res = Fin(35)
    /\ pc = "L43" =>
          /\ call.op = "getInvoice"
          /\ call.res.k = "invoice"
          /\ Len(call.res.lines) = 2
          /\ call.res.lines[1].quantity = Fin(1)
          /\ call.res.lines[1].itemTotal = Fin(10)
          /\ call.res.lines[1].currency = "USD"
          /\ call.res.lines[2].quantity = Fin(5)
          /\ call.res.lines[2].itemTotal = Fin(25)
          /\ call.res.lines[2].currency = "USD"
          /\ call.res.total = Fin(35)
    /\ (pc = "uncaught" /\ call.op # "throw") => FALSE

\* The invoice has been printed, with the total 35.
C10_Witness ==
    /\ pc = "L43"
    /\ call.op = "getInvoice"
    /\ call.res.k = "invoice"
    /\ Len(call.res.lines) = 2
    /\ call.res.total = Fin(35)

----------------------------------------------------------------------------
(* Properties of Organization, under SpecEmployees and SpecOrg. *)

\* p is one of the employees of org: the same object, not one that looks alike.
IsEmployee(org, p) ==
    \E i \in 1..Len(org.employees) : org.employees[i].value.ref = p.ref

\* C11: addEmployee keeps the employees deduplicated by identity: adding a
\* Person object that is already an employee leaves the employee count as it
\* is, and adding a Person object that is not yet one raises the count by
\* one, so that k distinct objects give a count of k.
C11_EmployeesDedupByIdentity ==
    [][call'.op = "addEmployee" =>
          EmployeesSize(amazon') =
              IF IsEmployee(amazon, call'.args[1])
              THEN EmployeesSize(amazon)
              ELSE EmployeesSize(amazon) + 1]_vars

\* C12: any two Organization instances with different names have different
\* toString() values.
C12_DifferentNamesDifferentDescriptions ==
    \A i, j \in 1..Len(orgs) :
        orgs[i].name # orgs[j].name => ToString(orgs[i]) # ToString(orgs[j])

----------------------------------------------------------------------------
(* Properties of webpack.config.js, under SpecConfig. *)

DevelopmentSelectors == {"dev", "devo", "development"}
ProductionSelectors == {"prod", "production"}

\* The selectors env names: the string itself, or the flags it sets to true.
SelectorsOf(env) ==
    IF env.k = "string" THEN {env.s}
    ELSE IF env.k = "object"
    THEN {key \in DOMAIN env.flags : env.flags[key] = JsTrue}
    ELSE {}

IsRecognisedSelector(env) ==
    SelectorsOf(env) \cap (DevelopmentSelectors \cup ProductionSelectors) # {}

\* env names one environment, development.
IsDevelopmentSelector(env) ==
    IsRecognisedSelector(env) /\ SelectorsOf(env) \cap ProductionSelectors = {}

\* env names one environment, production.
IsProductionSelector(env) ==
    IsRecognisedSelector(env) /\ SelectorsOf(env) \cap DevelopmentSelectors = {}

\* C13: the configuration function raises, and returns no configuration,
\* when env is absent or is anything but a recognised development (dev, devo,
\* development) or production (prod, production) selector; for every
\* recognised selector it returns a configuration.
C13_ConfigOnlyForRecognisedSelector ==
    pc = "return" =>
        IF IsRecognisedSelector(call.args[1])
        THEN call.res.k = "config"
        ELSE /\ IsThrow(call.res)
             /\ LooseEqualsUndefined(call.args[1]) =>
                   call.res = Throw("ERROR: No environment option specified!")

\* The function has raised for the selector "test".
C13_Witness ==
    /\ pc = "return"
    /\ call.args[1] = Str("test")
    /\ call.res = Throw("ERROR: Invalid environment option specified!")

HasSourceMaps(config) == "devtool" \in DOMAIN config

HasMinification(config) ==
    ~("minimize" \in DOMAIN config.optimization
        /\ config.optimization.minimize = FALSE)

\* C14: a development selector yields a configuration with inline source
\* maps and with minification disabled; a production selector yields one with
\* no devtool and with minimize left as webpack sets it; no value of env
\* yields a configuration with both source maps and minification.
C14_ProfilesAreExclusive ==
    (pc = "return" /\ call.res.k = "config") =>
        /\ IsDevelopmentSelector(call.args[1]) =>
              /\ HasSourceMaps(call.res)
              /\ call.res.devtool = "inline-source-map"
              /\ "minimize" \in DOMAIN call.res.optimization
              /\ call.res.optimization.minimize = FALSE
        /\ IsProductionSelector(call.args[1]) =>
              /\ ~HasSourceMaps(call.res)
              /\ "minimize" \notin DOMAIN call.res.optimization
        /\ ~(HasSourceMaps(call.res) /\ HasMinification(call.res))

\* The function has returned the development configuration for --env.devo.
C14_Witness ==
    /\ pc = "return"
    /\ call.args[1].k = "object"
    /\ SelectorsOf(call.args[1]) = {"devo"}
    /\ call.res.k = "config"
    /\ call.res.devtool = "inline-source-map"
    /\ call.res.optimization.minimize = FALSE

----------------------------------------------------------------------------
(* Properties of the cache groups, under SpecChunks. *)

\* The module whose path was tested, when it is one of the application's.
TestedModules == {m \in Modules : m.segs = call.args[1]}

IsEntryFile(m) == \E e \in EntrySet : e.file = m.id

\* C15: every module reachable from main.ts, main2.ts and main3.ts goes to
\* exactly one chunk: a module of an application library or of a vendor
\* library matches the test of exactly one cache group, and an entry file
\* matches none.
C15_ReachableModulesMatchOneGroup ==
    pc = "return" =>
        \A m \in TestedModules :
            m.id \in ReachableFromEntries =>
                IF IsEntryFile(m)
                THEN call.res.matches = {}
                ELSE Cardinality(call.res.matches) = 1

\* Dog.ts, which main2.ts imports, has matched the Mammals group alone.
C15_Witness ==
    /\ pc = "return"
    /\ \E m \in TestedModules :
          /\ m.id = "./src/AnimalLib/Mammals/Dog.ts"
          /\ m.id \in ModulesOfEntry(Entry[2])
    /\ call.res.matches = {"AnimalLib-Mammals"}

----------------------------------------------------------------------------
(* Properties of the build, under SpecBuild. *)

\* The chunks whose bundle has another name than in the build before.
Renamed == {c \in DOMAIN build.assets : build.assets[c] # build.previous[c]}

\* The last two builds differ by the content of one module, under hashed names.
OneModuleChanged ==
    /\ build.filename = NameChunkhashBundle
    /\ build.previous # Undefined
    /\ Cardinality(build.between) = 1

\* C17: with [chunkhash] in the names, when the content of one module has
\* changed between two builds, the bundle of the one chunk that holds the module
\* has a new name, and every other bundle, those of the chunks that depend on
\* the module too, has the name it had.
C17_OnlyTheChunkOfTheModuleIsRenamed ==
    OneModuleChanged =>
        \E c \in DOMAIN build.assets :
            /\ Renamed = {c}
            /\ build.between = {id \in build.between : id \in ChunkModules(c, build.sep)}

\* Organization.ts, which main.ts and the modules of ProductLib import, has
\* changed between two builds, and the bundles of main and ProductLib have the
\* names they had.
C17_Witness ==
    /\ OneModuleChanged
    /\ build.between = {"./src/CompanyLib/Organization.ts"}
    /\ <<"./src/ProductLib/Product.ts", "./src/CompanyLib/Organization.ts">> \in Imports
    /\ Renamed = {"CompanyLib"}
    /\ build.assets["main"] = build.previous["main"]
    /\ build.assets["ProductLib"] = build.previous["ProductLib"]

----------------------------------------------------------------------------
(* Properties of the page, under SpecPage. *)

\* The chunks of the modules of the entry of the page, its own apart.
NeededChunks ==
    UNION {ChunkTable[page.sep][id] : id \in ModulesOfEntry(EntryNamed(page.entry))}
        \ {page.entry}

\* C18: on a page with the script tags of every chunk its entry needs, the
\* code of the entry runs once and not more, not before all of those chunks
\* have loaded, without an error, and it has run when every script has,
\* in whatever order the scripts load.
C18_EntryRunsOnceAfterItsChunks ==
    NeededChunks \subseteq page.tags =>
        /\ page.runs <= 1
        /\ page.errors = 0
        /\ page.runs = 1 => NeededChunks \subseteq page.ranWith
        /\ page.loaded = page.tags => page.runs = 1

\* index3.html: main3 has loaded before AnimalLib, which came last, and has
\* run once.
C18_Witness ==
    /\ page.entry = "main3"
    /\ page.tags = {"main3", "AnimalLib", "AnimalLib-Birds", "AnimalLib-Reptiles"}
    /\ NeededChunks = {"AnimalLib", "AnimalLib-Birds", "AnimalLib-Reptiles"}
    /\ page.loaded = page.tags
    /\ page.runtime
    /\ "AnimalLib" \notin page.webpackJsonp
    /\ page.runs = 1

\* C19: on a page without the script tag of a chunk its entry needs, the code
\* of the entry never runs and no error is reported, however the other
\* scripts load.
C19_OmittedChunkFailsSilently ==
    ~(NeededChunks \subseteq page.tags) =>
        /\ page.runs = 0
        /\ page.errors = 0

\* index.html without the tag of typescript_collections: every script has
\* loaded and main has not run.
C19_Witness ==
    /\ page.entry = "main"
    /\ page.tags = {"main", "jquery", "ProductLib", "CompanyLib"}
    /\ "typescript_collections" \in NeededChunks
    /\ page.loaded = page.tags
    /\ page.runs = 0
    /\ page.errors = 0

----------------------------------------------------------------------------
(* Properties of the gulp tasks, under SpecGulp. *)

\* A run of debug or prod with gulpfile.js, the builds that depend on
\* clean-build.
IsBuildRun(g) == g.gulpfile = "gulpfile.js" /\ g.task \in {"debug", "prod"}

\* C20: a build clears the build directory of all content before it fills it
\* again: once debug or prod is finished and clean-build has done its work,
\* every file of the directory is one that this build wrote.
C20_OnlyFilesOfThisBuild ==
    (IsBuildRun(gulp) /\ gulp.finished /\ CleanDone(gulp)) =>
        \A f \in gulp.buildDir : f.fresh

\* The files that the task and the tasks it depends on write.
BundlesOf(gulpfile, task) ==
    UNION {TaskOutputs(gulpfile, t) : t \in TaskClosure(gulpfile, {task})}

\* C21: in debug, prod and ts-browserify-main2 the cleaning is over before a
\* bundle is written, so in every interleaving of the dependencies the bundles
\* that the task wrote are in the build directory at the step that finishes
\* the task.
C21_BundlesPresentWhenTaskFinishes ==
    [][(/\ ~gulp.finished /\ gulp'.finished
        /\ gulp'.gulpfile = "gulpfile.js"
        /\ gulp'.task \in {"debug", "prod", "ts-browserify-main2"}) =>
          BundlesOf(gulp'.gulpfile, gulp'.task) \subseteq gulp'.buildDir]_vars

----------------------------------------------------------------------------
(* Properties of the run of main.ts, under SpecMainFair. *)

\* The script has ended on the throw of line 43, every statement before it
\* having had its effect.
EndedOnEvalError ==
    /\ call.op = "throw"
    /\ call.res = Throw("EvalError")
    /\ page.employees # Undefined => page.employees = TechCompanyGetHTMLString(amazon)
    /\ Len(catalog.productsList) = 3
    /\ Len(o.items) = 2
    /\ IsCompleted(o)

\* C22: the run of main.ts raises nothing before its last statement (the
\* employees are rendered, the catalog printed, both items added, the order
\* purchased, the invoice printed), and it always ends, by the uncaught
\* EvalError of the last statement.
C22_MainEndsWithEvalError ==
    /\ [](pc = "uncaught" => EndedOnEvalError)
    /\ <>(pc = "uncaught")

\* The run has ended on the EvalError, the paragraph showing the employees of
\* Amazon and the order completed with a total of 35.
C22_Witness ==
    /\ pc = "uncaught"
    /\ call.res = Throw("EvalError")
    /\ page.employees = TechCompanyGetHTMLString(amazon)
    /\ o.orderTotal = Fin(35)
    /\ IsCompleted(o)

\* The path tested is that of a .ts file, of a name that is not empty, in the
\* directory src/AnimalLib itself.
DirectlyInAnimalLib ==
    /\ Len(call.args[1]) = 3
    /\ call.args[1][2] = AnimalLibStr
    /\ Len(call.args[1][3]) > Len(DotTs)

\* The path tested is that of a .ts file in Mammals, Reptiles or Birds.
InAnimalLibSubdirectory ==
    /\ Len(call.args[1]) = 4
    /\ call.args[1][2] = AnimalLibStr
    /\ call.args[1][3] \in {MammalsStr, ReptilesStr, BirdsStr}

\* C23: the test of the AnimalLib cache group matches every .ts file that is
\* directly in AnimalLib/ and no file of its subdirectories Mammals/,
\* Reptiles/ and Birds/, whatever the name of the file.
C23_AnimalLibTestExcludesSubdirectories ==
    pc = "return" =>
        /\ DirectlyInAnimalLib => "AnimalLib" \in call.res.matches
        /\ InAnimalLibSubdirectory => "AnimalLib" \notin call.res.matches

\* The bundles of each entrypoint, as the build lists them.
EntrypointListing ==
    [name \in EntryNames |->
        CASE name = "main" ->
                {"typescript_collections", "ProductLib", "CompanyLib", "jquery", "main"}
          [] name = "main2" -> {"AnimalLib", "AnimalLib-Mammals", "main2"}
          [] name = "main3" ->
                {"AnimalLib", "AnimalLib-Birds", "AnimalLib-Reptiles", "main3"}]

\* C24: the chunks an entry needs are the chunks that hold the modules its
\* imports reach: typescript_collections, ProductLib, CompanyLib, jquery and
\* main for main; AnimalLib, AnimalLib-Mammals and main2 for main2; AnimalLib,
\* AnimalLib-Birds, AnimalLib-Reptiles and main3 for main3.
C24_EntryNeedsTheChunksOfItsModules ==
    /\ NeededChunks \cup {page.entry} = EntrypointListing[page.entry]
    /\ page.waiting =>
          page.deferredModules \cup {page.entry} = EntrypointListing[page.entry]

\* The bundle of main2 has loaded and waits for AnimalLib and AnimalLib-Mammals.
C24_Witness ==
    /\ page.entry = "main2"
    /\ page.runtime
    /\ page.waiting
    /\ page.deferredModules = {"AnimalLib", "AnimalLib-Mammals"}

----------------------------------------------------------------------------
(* More properties of Order, under Spec. *)

\* C25: the completed flag of an Order only goes from false to true: a new
\* order is not completed, purchase() leaves it completed, and once it is
\* completed it stays so, whatever is called (addItem, getOrderTotal,
\* getInvoice, purchase again).
C25_CompletedIsMonotone ==
    /\ ~IsCompleted(o)
    /\ [][/\ IsCompleted(o) => IsCompleted(o')
          /\ call'.op = "purchase" => IsCompleted(o')]_vars

\* The order was purchased although an item of it has no product, and an
\* addItem after that has thrown and left it completed.
C25_Witness ==
    /\ IsCompleted(o)
    /\ \E i \in 1..Len(o.items) : ~IsProduct(o.items[i].product)
    /\ call.op = "addItem"
    /\ IsThrow(call.res)

\* The sum of the item totals printed on the lines of an invoice.
RECURSIVE SumOfInvoiceLines(_)
SumOfInvoiceLines(lines) ==
    IF lines = <<>> THEN Fin(0)
    ELSE Add(SumOfInvoiceLines(SubSeq(lines, 1, Len(lines) - 1)),
             lines[Len(lines)].itemTotal)

\* C26: whatever was called on the order before, the Total that getInvoice
\* prints is the sum of the item totals printed on the lines of that invoice.
C26_InvoiceTotalIsSumOfItsLines ==
    (call.op = "getInvoice" /\ ~IsThrow(call.res))
        => call.res.total = SumOfInvoiceLines(call.res.lines)

\* C27: every line item of an Order has a product: addItem with an absent
\* product (undefined or null, as a catalog lookup that found nothing gives)
\* returns false and stores nothing, so that getOrderTotal, getInvoice and
\* purchase never raise on a stored item.
C27_ItemsHaveAProduct ==
    /\ \A i \in 1..Len(o.items) : IsProduct(o.items[i].product)
    /\ (call.op = "addItem" /\ ~IsProduct(call.args[1]) /\ ~IsThrow(call.res))
          => call.res = JsFalse
    /\ call.op \in {"getOrderTotal", "getInvoice", "purchase"} => ~IsThrow(call.res)

\* C28: an addItem that returns false or raises leaves the line items, the
\* completed flag and the cached total of the order as they were, and
\* getOrderTotal and getInvoice leave the line items and the completed flag as
\* they were.
C28_FailedAddItemAndReadsLeaveTheOrder ==
    [][/\ (call'.op = "addItem" /\ (call'.res = JsFalse \/ IsThrow(call'.res)))
             => /\ o'.items = o.items
                /\ o'.completed = o.completed
                /\ o'.orderTotal = o.orderTotal
       /\ call'.op \in {"getOrderTotal", "getInvoice"}
             => /\ o'.items = o.items
                /\ o'.completed = o.completed]_vars

\* An addItem of a quantity of one and a half has returned false on an order
\* that holds an item and a cached total.
C28_Witness ==
    /\ call.op = "addItem"
    /\ call.args[2] = Halves(3)
    /\ call.res = JsFalse
    /\ Len(o.items) = 1
    /\ o.orderTotal # Undefined
    /\ ~IsCompleted(o)

----------------------------------------------------------------------------
(* More properties of the configuration, under SpecConfig. *)

\* What of a configuration the selector is to leave alone: the entry points,
\* the cache groups, the loader rules, the output and the stats.
SharedPart(config) ==
    [entry |-> config.entry,
     splitChunks |-> IF "splitChunks" \in DOMAIN config.optimization
                     THEN config.optimization.splitChunks ELSE Undefined,
     module |-> config.module,
     resolve |-> config.resolve,
     output |-> config.output,
     stats |-> config.stats]

\* C29: the selector decides the devtool and the minimize setting and nothing
\* else: the entry points, the cache groups, the loader rules, the output
\* names and the stats of the configuration returned are those returned for
\* --env prod, for every recognised development or production selector.
C29_SelectorChangesOnlyDevtoolAndMinimize ==
    (pc = "return" /\ call.res.k = "config") =>
        /\ SharedPart(call.res) = SharedPart(WebpackConfig(Str("prod"), call.args[2]))
        /\ DOMAIN call.res \subseteq
              DOMAIN WebpackConfig(Str("prod"), call.args[2]) \cup {"devtool"}
        /\ DOMAIN call.res.optimization \subseteq {"splitChunks", "minimize"}

\* The function has returned the development configuration for --env
\* development, with the cache groups and the output names of the production
\* one.
C29_Witness ==
    /\ pc = "return"
    /\ call.args[1] = Str("development")
    /\ call.res.k = "config"
    /\ call.res.devtool = "inline-source-map"
    /\ call.res.optimization.splitChunks.cacheGroups = CacheGroups(call.args[2])
    /\ call.res.output.filename = "[name].bundle.js"

\* The names of the chunks of a configuration: those of its cache groups, then
\* those of its entry points.
ChunkNamesOf(config) ==
    [i \in 1..Len(config.optimization.splitChunks.cacheGroups) |->
        config.optimization.splitChunks.cacheGroups[i].name]
        \o [i \in 1..Len(config.entry) |-> config.entry[i].name]

\* C30: the eight names of the cache groups and the three names of the entry
\* points are pairwise distinct, so that under '[name].bundle.js' no two chunks
\* are written to one file.
C30_OutputNamesAreDistinct ==
    (pc = "return" /\ call.res.k = "config") =>
        LET names == ChunkNamesOf(call.res) IN
        /\ Len(names) = 11
        /\ call.res.output.filename = NameBundle
        /\ \A i, j \in 1..Len(names) :
              i # j =>
                 /\ names[i] # names[j]
                 /\ AssetName(call.res.output.filename, names[i], <<>>, call.args[2])
                       # AssetName(call.res.output.filename, names[j], <<>>, call.args[2])

\* The function has returned the production configuration, with its eleven
\* chunk names, among them AnimalLib and AnimalLib-Mammals.
C30_Witness ==
    /\ pc = "return"
    /\ call.args[1] = Str("production")
    /\ call.res.k = "config"
    /\ Len(ChunkNamesOf(call.res)) = 11
    /\ ChunkNamesOf(call.res)[1] = "AnimalLib"
    /\ ChunkNamesOf(call.res)[2] = "AnimalLib-Mammals"
    /\ ChunkNamesOf(call.res)[11] = "main3"

====
